---- MODULE Spec2Model ----
(***************************************************************************)
(* The ASNS swap-coordination server (src/asns/api.py, src/asns/db.py):    *)
(* two keyed stores (token_db, tx_db) and the HTTP endpoint handlers that  *)
(* read and write them.  One action per endpoint; a handler runs from the  *)
(* request to the response in one step.  Spec starts on empty stores,      *)
(* StoredSpec on stores an earlier process left, FaultSpec lets storage    *)
(* operations raise, ConcurrentSpec serves requests that are in flight at  *)
(* the same time, BothSpec sends each registration request to the          *)
(* historical s4 server (src/s4/api.py, src/s4/db.py) as well.             *)
(***************************************************************************)
EXTENDS Integers, Sequences, FiniteSets, TLC

VARIABLES
    token_db,   \* DBCommons.token_db : hashed token -> TokenDBData (as pickled dict)
    tx_db,      \* DBCommons.tx_db    : swap key     -> TxDBData    (as pickled dict)
    clock,      \* int(time.time()) as last observed by get_token
    request,    \* the request being answered: [endpoint, item]
    response,   \* its JSONResponse: [status_code, content, raised]
    succeeded,  \* history: <<endpoint, token>> of the writing calls that returned Success
    initiated,  \* history: swap key -> the item of the initiate_swap that succeeded on it
    faults,     \* the storage operations that raised while the request was answered
    tasks,      \* the requests in flight: task -> [endpoint, item, pc, response]
    s4_token_db,  \* s4: token_db of src/s4/api.py : hashed token -> TokenDBData (as pickled dict)
    s4_tx_db,     \* s4: tx_db of src/s4/api.py    : hashed token -> TxDBData (as pickled dict)
    s4_response   \* s4: the JSONResponse of the s4 server to the same request

s4_vars == <<s4_token_db, s4_tx_db, s4_response>>

vars == <<token_db, tx_db, clock, request, response, succeeded, initiated, faults, tasks,
          s4_token_db, s4_tx_db, s4_response>>

----------------------------------------------------------------------------
\* Bounds of the model.

\* Number of distinct 64-byte values secrets.token_bytes can return.
MaxTokens == 2

----------------------------------------------------------------------------
\* Python values.

\* None where a str is expected.
NoneStr == "None"
\* None where an int is expected.
NoneInt == 0 - 1
\* None where an object or bytes is expected; Some(x) is the object x.
None == <<>>
Some(x) == <<x>>
Val(o) == o[1]

\* dict.get(key): the value, or None (as a str) when the key is absent.
Get(d, key) == IF key \in DOMAIN d THEN d[key] ELSE NoneStr

\* obj.name = v on a Python object without __slots__: the attribute is set
\* whether or not the class declares it.
SetAttr(obj, name, v) ==
    [n \in DOMAIN obj \cup {name} |-> IF n = name THEN v ELSE obj[n]]

\* obj.name: AttributeError when the object has no such attribute.
HasAttr(obj, name) == name \in DOMAIN obj

----------------------------------------------------------------------------
\* Enumerations of db.py.

NOT_USED == 0
INITIATOR == 1
PARTICIPATOR == 2

REGISTERED == 0
INITIATED == 1
PARTICIPATED == 2
REDEEMED == 3
COMPLETED == 4
CANCELED == 5

\* util.ResponseStatus and util.ErrorMessages, as JSON-encoded.
SUCCESS == "Success"
FAILED == "Failed"
TOKEN_INVALID == "Token is not registered or is invalid."
TOKEN_STATUS_INVALID == "Inappropriate token status."
TOKEN_USED == "Token is already used."
SWAP_INVALID == "Selected swap is not registered or is invalid."
SWAP_PROGRESS == "Selected swap is already in progress or completed."
SWAP_STATUS_INVALID == "SWAP_STATUS_INVALID"
FATAL_ERROR == "FATAL_ERROR"
UPDATE_TOKEN == "Failed to update token status: "
UPDATE_SWAP == "Failed to update swap data: "

----------------------------------------------------------------------------
\* Tokens, hashing and encodings.

RawTokens == 1..MaxTokens

\* util.sha256d: double SHA-256, collision-free on the values of the model.
sha256d(x) == <<"sha256d", x>>

\* pycoin b58.b2a_base58 / a2b_base58; a2b_base58 raises on a text that is
\* not base58.
b2a_base58(raw) == <<"b58", raw>>
IsBase58(text) == text[1] = "b58"
a2b_base58(text) == text[2]

\* bytes.hex / binascii.a2b_hex; a2b_hex raises on a text that is not hex.
hex(b) == <<"hex", b>>
IsHex(text) == text[1] = "hex"
a2b_hex(text) == text[2]

\* The raw tokens of ConcurrentSpec: one party more than RawTokens, so that
\* a swap has a participator and two would-be initiators.
Parties == 1..(MaxTokens + 1)

Keys == {sha256d(r) : r \in Parties}
IsBytes(x) == x \in Keys

\* The well-formed token texts and selectedSwap texts a client may send.
TokenTexts == {b2a_base58(r) : r \in RawTokens}
SwapTexts == {hex(sha256d(r)) : r \in RawTokens}

\* The hashed token of a token text (b58.a2b_base58, then sha256d).
HashOf(token) == sha256d(a2b_base58(token))

\* Values of int(time.time()) a request may observe.
Times == {1600000000, 1600000060}

\* Storage operations that may raise.
NoFail == {}

----------------------------------------------------------------------------
\* Records of db.py.

TxDBDataFields ==
    {"i_currency", "i_receive_amount", "i_addr", "i_token_hash", "i_raw_tx",
     "i_redeem_raw_tx", "p_currency", "p_receive_amount", "p_addr", "p_raw_tx",
     "p_redeem_raw_tx", "swap_status"}

\* TxDBData(i_currency=.., i_receive_amount=.., p_currency=.., p_receive_amount=..,
\* p_addr=..): every other field takes its default.
TxDBData(i_currency, i_receive_amount, p_currency, p_receive_amount, p_addr) ==
    [i_currency |-> i_currency, i_receive_amount |-> i_receive_amount,
     i_addr |-> NoneStr, i_token_hash |-> None, i_raw_tx |-> NoneStr,
     i_redeem_raw_tx |-> NoneStr,
     p_currency |-> p_currency, p_receive_amount |-> p_receive_amount,
     p_addr |-> p_addr, p_raw_tx |-> NoneStr, p_redeem_raw_tx |-> NoneStr,
     swap_status |-> REGISTERED]

\* TxDBData.asdict: dataclasses.asdict keeps the declared fields only.
TxDBData_asdict(obj) == [n \in TxDBDataFields |-> obj[n]]

\* TxDBData.from_dict: a TxDBData with the declared fields of the dict.
TxDBData_from_dict(d) == [n \in TxDBDataFields |-> d[n]]

\* TokenDBData(date): token_status defaults to NOT_USED.
TokenDBData(date) == [date |-> date, token_status |-> NOT_USED]

TokenDBData_asdict(obj) == [date |-> obj.date, token_status |-> obj.token_status]

TokenDBData_from_dict(d) == [date |-> d.date, token_status |-> d.token_status]

----------------------------------------------------------------------------
\* The stores.  A storage operation named in `fail` raises.

\* TxDB.put: the store after the write.
TxDB_put(key, value) ==
    [k \in DOMAIN tx_db \cup {key} |->
        IF k = key THEN TxDBData_asdict(value) ELSE tx_db[k]]

\* TxDB.get: None for a missing key.  plyvel raises TypeError on a key that
\* is not bytes.
TxDB_get_raises(key, fail) == ~IsBytes(key) \/ "tx_db.get" \in fail
TxDB_get(key) ==
    IF key \in DOMAIN tx_db THEN Some(TxDBData_from_dict(tx_db[key])) ELSE None

\* TxDB.get_all: every record of the store by key.
TxDB_get_all == [k \in DOMAIN tx_db |-> TxDBData_from_dict(tx_db[k])]

TokenDB_put(key, value) ==
    [k \in DOMAIN token_db \cup {key} |->
        IF k = key THEN TokenDBData_asdict(value) ELSE token_db[k]]

TokenDB_get(key) ==
    IF key \in DOMAIN token_db THEN Some(TokenDBData_from_dict(token_db[key])) ELSE None

\* verify_token without the test of the record it read: exist is True
\* whether or not the key is stored.
TokenDB_verify_token_no_test(token) ==
    LET data == TokenDB_get(sha256d(a2b_base58(token)))
    IN  [exist |-> TRUE, create_at |-> IF data # None THEN Val(data).date ELSE NoneInt]

\* TokenDB.verify_token: (exist, date); raises on a malformed token.
TokenDB_verify_token(token) ==
    LET data == TokenDB_get(sha256d(a2b_base58(token)))
    IN  IF data # None THEN [exist |-> TRUE, create_at |-> Val(data).date]
        ELSE [exist |-> FALSE, create_at |-> NoneInt]

----------------------------------------------------------------------------
\* DBCommons (db.py).  An operator that may raise returns a record whose
\* `raised` field names the exception (NoneStr when it returns normally).

\* str(e) of the exceptions the handlers catch.
IOError == "IOError"
NoneTypeError == "'NoneType' object has no attribute 'token_status'"
KeyTypeError == "TypeError"

\* token_status_msg that checks only that the token exists (neither its
\* status nor whether it keys a swap).
token_status_msg_exist_only(token, token_status, fail) ==
    IF ~IsBase58(token) THEN [raised |-> "EncodingError", msg |-> NoneStr]
    ELSE
    LET hashed_token == sha256d(a2b_base58(token))
        token_data == IF "token_db.get" \in fail THEN None ELSE TokenDB_get(hashed_token)
    IN  [raised |-> NoneStr,
         msg |-> IF token_data # None THEN NoneStr ELSE TOKEN_INVALID]

\* token_status_msg with the last two tests in the other order: "already
\* used" wins over "inappropriate status".
token_status_msg_used_first(token, token_status, fail) ==
    IF ~IsBase58(token) THEN [raised |-> "EncodingError", msg |-> NoneStr]
    ELSE
    LET hashed_token == sha256d(a2b_base58(token))
        token_data == IF "token_db.get" \in fail THEN None ELSE TokenDB_get(hashed_token)
        is_exist == token_data # None
        equal_status == is_exist /\ Val(token_data).token_status \notin token_status
        is_used == /\ is_exist
                   /\ ~TxDB_get_raises(hashed_token, fail)
                   /\ TxDB_get(hashed_token) # None
        msg0 == IF is_exist THEN NoneStr ELSE TOKEN_INVALID
        msg == IF is_used THEN TOKEN_USED
               ELSE IF equal_status THEN TOKEN_STATUS_INVALID
               ELSE msg0
    IN  [raised |-> NoneStr, msg |-> msg]

\* token_status_msg without the message for a token that is not stored.
token_status_msg_no_exist(token, token_status, fail) ==
    IF ~IsBase58(token) THEN [raised |-> "EncodingError", msg |-> NoneStr]
    ELSE
    LET hashed_token == sha256d(a2b_base58(token))
        token_data == IF "token_db.get" \in fail THEN None ELSE TokenDB_get(hashed_token)
        is_exist == token_data # None
        equal_status == is_exist /\ Val(token_data).token_status \notin token_status
        is_used == /\ is_exist
                   /\ ~TxDB_get_raises(hashed_token, fail)
                   /\ TxDB_get(hashed_token) # None
        msg == IF equal_status THEN TOKEN_STATUS_INVALID
               ELSE IF is_used THEN TOKEN_USED
               ELSE NoneStr
    IN  [raised |-> NoneStr, msg |-> msg]

\* DBCommons.token_status_msg: [raised, msg].
token_status_msg(token, token_status, fail) ==
    IF ~IsBase58(token) THEN [raised |-> "EncodingError", msg |-> NoneStr]
    ELSE
    LET hashed_token == sha256d(a2b_base58(token))
        token_data == IF "token_db.get" \in fail THEN None ELSE TokenDB_get(hashed_token)
        is_exist == token_data # None
        equal_status == is_exist /\ Val(token_data).token_status \notin token_status
        is_used == /\ is_exist
                   /\ ~TxDB_get_raises(hashed_token, fail)
                   /\ TxDB_get(hashed_token) # None
        msg0 == IF is_exist THEN NoneStr ELSE TOKEN_INVALID
        msg == IF equal_status THEN TOKEN_STATUS_INVALID
               ELSE IF is_used THEN TOKEN_USED
               ELSE msg0
    IN  [raised |-> NoneStr, msg |-> msg]

\* change_token_status that sets the status on the object it read and never
\* puts it back.
change_token_status_no_put(hashed_token, token_status, fail) ==
    IF "token_db.get" \in fail THEN [err |-> IOError, token_db |-> token_db]
    ELSE IF TokenDB_get(hashed_token) = None
    THEN [err |-> NoneTypeError, token_db |-> token_db]
    ELSE [err |-> NoneStr, token_db |-> token_db]

\* change_token_status that puts a new TokenDBData carrying the status
\* alone (date takes its default, None) in place of the record it read.
change_token_status_new_record(hashed_token, token_status, fail) ==
    IF "token_db.get" \in fail THEN [err |-> IOError, token_db |-> token_db]
    ELSE IF TokenDB_get(hashed_token) = None
    THEN [err |-> NoneTypeError, token_db |-> token_db]
    ELSE IF "token_db.put" \in fail THEN [err |-> IOError, token_db |-> token_db]
    ELSE [err |-> NoneStr,
          token_db |-> TokenDB_put(hashed_token,
                                   [date |-> NoneInt, token_status |-> token_status])]

\* change_token_status that gives the status to every stored token that
\* is NOT_USED, the caller's included.
change_token_status_every_unused(hashed_token, token_status, fail) ==
    IF "token_db.get" \in fail THEN [err |-> IOError, token_db |-> token_db]
    ELSE
    LET token_data == TokenDB_get(hashed_token)
    IN  IF token_data = None THEN [err |-> NoneTypeError, token_db |-> token_db]
        ELSE IF "token_db.put" \in fail THEN [err |-> IOError, token_db |-> token_db]
        ELSE [err |-> NoneStr,
              token_db |-> [k \in DOMAIN token_db |->
                              IF k = hashed_token \/ token_db[k].token_status = NOT_USED
                              THEN SetAttr(token_db[k], "token_status", token_status)
                              ELSE token_db[k]]]

\* DBCommons.change_token_status: [err, token_db], the error text (or None)
\* and the token store after the call.
change_token_status(hashed_token, token_status, fail) ==
    IF "token_db.get" \in fail THEN [err |-> IOError, token_db |-> token_db]
    ELSE
    LET token_data == TokenDB_get(hashed_token)
    IN  IF token_data = None THEN [err |-> NoneTypeError, token_db |-> token_db]
        ELSE IF "token_db.put" \in fail THEN [err |-> IOError, token_db |-> token_db]
        ELSE [err |-> NoneStr,
              token_db |-> TokenDB_put(hashed_token,
                                       SetAttr(Val(token_data), "token_status", token_status))]

\* update_swap without the test of err: the swap record is put whether or
\* not the token update before it failed.
update_swap_ignores_err(hashed_token, swap_data, err, fail) ==
    IF ~IsBytes(hashed_token) \/ "tx_db.put" \in fail
    THEN [result |-> [status |-> "Failed",
                      error |-> UPDATE_SWAP \o
                                (IF IsBytes(hashed_token) THEN IOError ELSE KeyTypeError)],
          tx_db |-> tx_db]
    ELSE [result |-> [status |-> "Success"],
          tx_db |-> TxDB_put(hashed_token, swap_data)]

\* update_swap that reports every failure as a failure of the swap write.
update_swap_one_prefix(hashed_token, swap_data, err, fail) ==
    IF err # NoneStr /\ err # ""
    THEN [result |-> [status |-> "Failed", error |-> UPDATE_SWAP \o err],
          tx_db |-> tx_db]
    ELSE IF ~IsBytes(hashed_token) \/ "tx_db.put" \in fail
    THEN [result |-> [status |-> "Failed",
                      error |-> UPDATE_SWAP \o
                                (IF IsBytes(hashed_token) THEN IOError ELSE KeyTypeError)],
          tx_db |-> tx_db]
    ELSE [result |-> [status |-> "Success"],
          tx_db |-> TxDB_put(hashed_token, swap_data)]

\* DBCommons.update_swap: [result, tx_db], the response dict and the swap
\* store after the call.  tx_db.put raises on a key that is not bytes.
update_swap(hashed_token, swap_data, err, fail) ==
    IF err # NoneStr /\ err # ""
    THEN [result |-> [status |-> "Failed", error |-> UPDATE_TOKEN \o err],
          tx_db |-> tx_db]
    ELSE IF ~IsBytes(hashed_token) \/ "tx_db.put" \in fail
    THEN [result |-> [status |-> "Failed",
                      error |-> IF err = NoneStr
                                THEN UPDATE_SWAP \o
                                     (IF IsBytes(hashed_token) THEN IOError ELSE KeyTypeError)
                                ELSE IF IsBytes(hashed_token) THEN IOError ELSE KeyTypeError],
          tx_db |-> tx_db]
    ELSE [result |-> [status |-> "Success"],
          tx_db |-> TxDB_put(hashed_token, swap_data)]

\* verify_token_and_get_swap_data without the test of the swap's status.
verify_token_and_get_swap_data_any_status(token, token_statuses, swap_status, selected_swap_key, fail) ==
    LET m == token_status_msg(token, token_statuses, fail)
        key == IF selected_swap_key = None THEN sha256d(a2b_base58(token))
               ELSE selected_swap_key
        data == IF m.msg = NoneStr /\ ~TxDB_get_raises(key, fail)
                THEN TxDB_get(key) ELSE None
        msg == m.msg
    IN  IF m.raised # NoneStr
        THEN [raised |-> m.raised, result |-> None, key |-> None, data |-> None]
        ELSE IF data = None
        THEN [raised |-> "AttributeError", result |-> None, key |-> key, data |-> None]
        ELSE [raised |-> NoneStr,
              result |-> IF msg # NoneStr
                         THEN Some([status |-> "Failed", error |-> msg]) ELSE None,
              key |-> key, data |-> data]

\* DBCommons.verify_token_and_get_swap_data: [raised, result, key, data]:
\* result is None or Some(failure dict), data is None or Some(TxDBData).
\* Line 270 reads selected_swap_data.swap_status whether or not the lookup
\* returned a record; on None that raises AttributeError.
verify_token_and_get_swap_data(token, token_statuses, swap_status, selected_swap_key, fail) ==
    LET m == token_status_msg(token, token_statuses, fail)
        key == IF selected_swap_key = None THEN sha256d(a2b_base58(token))
               ELSE selected_swap_key
        data == IF m.msg = NoneStr /\ ~TxDB_get_raises(key, fail)
                THEN TxDB_get(key) ELSE None
        msg == IF Val(data).swap_status # swap_status THEN SWAP_PROGRESS ELSE m.msg
    IN  IF m.raised # NoneStr
        THEN [raised |-> m.raised, result |-> None, key |-> None, data |-> None]
        ELSE IF data = None
        THEN [raised |-> "AttributeError", result |-> None, key |-> key, data |-> None]
        ELSE [raised |-> NoneStr,
              result |-> IF msg # NoneStr
                         THEN Some([status |-> "Failed", error |-> msg]) ELSE None,
              key |-> key, data |-> data]

----------------------------------------------------------------------------
\* Responses.

\* JSONResponse(status_code=.., content=jsonable_encoder(result)).
JSONResponse(status_code, content) ==
    [status_code |-> status_code, content |-> content, raised |-> NoneStr]

\* An exception no handler of api.py catches (only StarletteHTTPException and
\* RequestValidationError have handlers): the server answers 500 with the
\* plain text below and no JSON.
Unhandled(exc) ==
    [status_code |-> 500, content |-> [text |-> "Internal Server Error"], raised |-> exc]

\* if result.get("error") is not None: status_code = 400
StatusOf(result) == IF Get(result, "error") # NoneStr THEN 400 ELSE 200

\* What a handler leaves behind: its response and the two stores.
Outcome(resp, tokens, swaps) == [response |-> resp, token_db |-> tokens, tx_db |-> swaps]

ReadOnly(resp) == Outcome(resp, token_db, tx_db)

----------------------------------------------------------------------------
\* Request bodies (the pydantic items of api.py), over small value sets.

\* (wantCurrency, wantAmount, sendCurrency, sendAmount, receiveAddress)
Offers ==
    {[wantCurrency |-> "BTC", wantAmount |-> 10000, sendCurrency |-> "LTC",
      sendAmount |-> 100000000, receiveAddress |-> "12dRugNc"],
     [wantCurrency |-> "LTC", wantAmount |-> 100000000, sendCurrency |-> "BTC",
      sendAmount |-> 10000, receiveAddress |-> "1BoatSLR"]}

\* (contract, rawTransaction, receiveAddress) of initiate_swap
Initiations ==
    {[contract |-> "6382012088a8", rawTransaction |-> "0200000000010129",
      receiveAddress |-> "LV5nrrey"],
     [contract |-> "63a61429c36b", rawTransaction |-> "0100000001a7b3",
      receiveAddress |-> "LZ1tnnkp"]}

\* Raw transactions a client may submit to participate, redeem and complete.
RawTxs == {"tx_push_1", "tx_push_none"}
Contracts == {"63a61429c36b"}

TokenItem == {[token |-> t] : t \in TokenTexts}

RegisterSwapItem ==
    {[token |-> t, wantCurrency |-> o.wantCurrency, wantAmount |-> o.wantAmount,
      sendCurrency |-> o.sendCurrency, sendAmount |-> o.sendAmount,
      receiveAddress |-> o.receiveAddress] : t \in TokenTexts, o \in Offers}

InitiateSwapItem ==
    {[token |-> t, selectedSwap |-> s, contract |-> i.contract,
      rawTransaction |-> i.rawTransaction, receiveAddress |-> i.receiveAddress] :
        t \in TokenTexts, s \in SwapTexts, i \in Initiations}

TokenAndTxAndContractItem ==
    {[token |-> t, rawTransaction |-> x, contract |-> c] :
        t \in TokenTexts, x \in RawTxs, c \in Contracts}

TokenAndSelectedSwapItem ==
    {[token |-> t, selectedSwap |-> s] : t \in TokenTexts, s \in SwapTexts}

RedeemSwapItem ==
    {[token |-> t, selectedSwap |-> s, rawTransaction |-> x] :
        t \in TokenTexts, s \in SwapTexts, x \in RawTxs}

TokenAndTxItem == {[token |-> t, rawTransaction |-> x] : t \in TokenTexts, x \in RawTxs}

----------------------------------------------------------------------------
\* The handlers of api.py: each maps a request (and the storage operations
\* that fail during it) to an Outcome.

\* get_token that leaves the new record as the only record of the token store.
get_token_handler_drops_records(raw_token, now, fail) ==
    LET token == b2a_base58(raw_token)
        hashed_token == sha256d(raw_token)
    IN  IF "token_db.put" \in fail
        THEN ReadOnly(JSONResponse(500,
                [status |-> FAILED, token |-> None, error |-> IOError]))
        ELSE Outcome(JSONResponse(200, [status |-> SUCCESS, token |-> token]),
                     [k \in {hashed_token} |-> TokenDBData(now)], tx_db)

\* GET /get_token/ with raw_token = secrets.token_bytes(64), time.time() = now.
get_token_handler(raw_token, now, fail) ==
    LET token == b2a_base58(raw_token)
        hashed_token == sha256d(raw_token)
    IN  IF "token_db.put" \in fail
        THEN ReadOnly(JSONResponse(500,
                [status |-> FAILED, token |-> None, error |-> IOError]))
        ELSE Outcome(JSONResponse(200, [status |-> SUCCESS, token |-> token]),
                     TokenDB_put(hashed_token, TokenDBData(now)), tx_db)

\* POST /verify_token/
verify_token_handler(item, fail) ==
    LET v == IF ~IsBase58(item.token) \/ "token_db.get" \in fail
             THEN [exist |-> FALSE, create_at |-> NoneInt]
             ELSE TokenDB_verify_token(item.token)
    IN  ReadOnly(JSONResponse(200,
            [status |-> SUCCESS, exist |-> v.exist, create_at |-> v.create_at]))

\* register_swap that stores each amount on the side that named it
\* (i_receive_amount = wantAmount, p_receive_amount = sendAmount).
register_swap_handler_amounts_unswapped(item, fail) ==
    LET m == token_status_msg(item.token, {NOT_USED}, fail)
        swap_data == TxDBData(item.wantCurrency, item.wantAmount,
                              item.sendCurrency, item.sendAmount, item.receiveAddress)
        hashed_token == sha256d(a2b_base58(item.token))
        c == change_token_status(hashed_token, PARTICIPATOR, fail)
        u == update_swap(hashed_token, swap_data, c.err, fail)
    IN  IF m.raised # NoneStr THEN ReadOnly(Unhandled(m.raised))
        ELSE IF m.msg # NoneStr /\ m.msg # ""
        THEN ReadOnly(JSONResponse(400, [status |-> FAILED, error |-> m.msg]))
        ELSE Outcome(JSONResponse(StatusOf(u.result), u.result), c.token_db, u.tx_db)

\* register_swap that gives the token its role before it looks at the
\* message of token_status_msg.
register_swap_handler_flips_before_check(item, fail) ==
    LET m == token_status_msg(item.token, {NOT_USED}, fail)
        swap_data == TxDBData(item.wantCurrency, item.sendAmount,
                              item.sendCurrency, item.wantAmount, item.receiveAddress)
        hashed_token == sha256d(a2b_base58(item.token))
        c == change_token_status(hashed_token, PARTICIPATOR, fail)
        u == update_swap(hashed_token, swap_data, c.err, fail)
    IN  IF m.raised # NoneStr THEN ReadOnly(Unhandled(m.raised))
        ELSE IF m.msg # NoneStr /\ m.msg # ""
        THEN Outcome(JSONResponse(400, [status |-> FAILED, error |-> m.msg]),
                     c.token_db, tx_db)
        ELSE Outcome(JSONResponse(StatusOf(u.result), u.result), c.token_db, u.tx_db)

\* POST /register_swap/
register_swap_handler(item, fail) ==
    LET m == token_status_msg(item.token, {NOT_USED}, fail)
        swap_data == TxDBData(item.wantCurrency, item.sendAmount,
                              item.sendCurrency, item.wantAmount, item.receiveAddress)
        hashed_token == sha256d(a2b_base58(item.token))
        c == change_token_status(hashed_token, PARTICIPATOR, fail)
        u == update_swap(hashed_token, swap_data, c.err, fail)
    IN  IF m.raised # NoneStr THEN ReadOnly(Unhandled(m.raised))
        ELSE IF m.msg # NoneStr /\ m.msg # ""
        THEN ReadOnly(JSONResponse(400, [status |-> FAILED, error |-> m.msg]))
        ELSE Outcome(JSONResponse(StatusOf(u.result), u.result), c.token_db, u.tx_db)

\* swap_list_data that hides only the COMPLETED records.
swap_list_data_not_completed(all_list) ==
    LET listed == {k \in DOMAIN all_list : all_list[k].swap_status # COMPLETED}
    IN  [h \in {hex(k) : k \in listed} |->
            LET value == all_list[a2b_hex(h)]
            IN  [initiatorCurrency |-> value.i_currency,
                 initiatorReceiveAmount |-> value.i_receive_amount,
                 participatorCurrency |-> value.p_currency,
                 participatorReceiveAmount |-> value.p_receive_amount,
                 participatorAddress |-> value.p_addr]]

\* The "data" of /get_swap_list/: the REGISTERED records of a scan, by hex key.
swap_list_data(all_list) ==
    LET listed == {k \in DOMAIN all_list : all_list[k].swap_status = REGISTERED}
    IN  [h \in {hex(k) : k \in listed} |->
            LET value == all_list[a2b_hex(h)]
            IN  [initiatorCurrency |-> value.i_currency,
                 initiatorReceiveAmount |-> value.i_receive_amount,
                 participatorCurrency |-> value.p_currency,
                 participatorReceiveAmount |-> value.p_receive_amount,
                 participatorAddress |-> value.p_addr]]

\* GET /get_swap_list/
get_swap_list_handler(fail) ==
    IF "tx_db.get_all" \in fail
    THEN ReadOnly(JSONResponse(500, [status |-> FAILED, data |-> swap_list_data(<<>>)]))
    ELSE ReadOnly(JSONResponse(200, [status |-> SUCCESS, data |-> swap_list_data(TxDB_get_all)]))

\* initiate_swap that sets the last member of SwapStatus, CANCELED, where
\* the handler sets INITIATED.
initiate_swap_handler_sets_canceled(item, fail) ==
    IF ~IsHex(item.selectedSwap) THEN ReadOnly(Unhandled("binascii.Error"))
    ELSE
    LET selected_swap_key == a2b_hex(item.selectedSwap)
        v == verify_token_and_get_swap_data(
                 item.token, {NOT_USED}, REGISTERED, selected_swap_key, fail)
        hashed_token == sha256d(a2b_base58(item.token))
        d1 == SetAttr(Val(v.data), "swap_status", CANCELED)
        d2 == SetAttr(d1, "i_contract", item.contract)
        d3 == SetAttr(d2, "i_raw_tx", item.rawTransaction)
        d4 == SetAttr(d3, "i_addr", item.receiveAddress)
        selected_swap_data == SetAttr(d4, "i_token_hash", hashed_token)
        c == change_token_status(hashed_token, INITIATOR, fail)
        u == update_swap(selected_swap_key, selected_swap_data, c.err, fail)
    IN  IF v.raised # NoneStr THEN ReadOnly(Unhandled(v.raised))
        ELSE IF v.result # None
        THEN ReadOnly(JSONResponse(StatusOf(Val(v.result)), Val(v.result)))
        ELSE Outcome(JSONResponse(StatusOf(u.result), u.result), c.token_db, u.tx_db)

\* initiate_swap that also stores the initiator's receive address as the
\* participator's address.
initiate_swap_handler_overwrites_p_addr(item, fail) ==
    IF ~IsHex(item.selectedSwap) THEN ReadOnly(Unhandled("binascii.Error"))
    ELSE
    LET selected_swap_key == a2b_hex(item.selectedSwap)
        v == verify_token_and_get_swap_data(
                 item.token, {NOT_USED}, REGISTERED, selected_swap_key, fail)
        hashed_token == sha256d(a2b_base58(item.token))
        d1 == SetAttr(Val(v.data), "swap_status", INITIATED)
        d2 == SetAttr(d1, "p_addr", item.receiveAddress)
        d3 == SetAttr(d2, "i_raw_tx", item.rawTransaction)
        d4 == SetAttr(d3, "i_addr", item.receiveAddress)
        selected_swap_data == SetAttr(d4, "i_token_hash", hashed_token)
        c == change_token_status(hashed_token, INITIATOR, fail)
        u == update_swap(selected_swap_key, selected_swap_data, c.err, fail)
    IN  IF v.raised # NoneStr THEN ReadOnly(Unhandled(v.raised))
        ELSE IF v.result # None
        THEN ReadOnly(JSONResponse(StatusOf(Val(v.result)), Val(v.result)))
        ELSE Outcome(JSONResponse(StatusOf(u.result), u.result), c.token_db, u.tx_db)

\* POST /initiate_swap/
initiate_swap_handler(item, fail) ==
    IF ~IsHex(item.selectedSwap) THEN ReadOnly(Unhandled("binascii.Error"))
    ELSE
    LET selected_swap_key == a2b_hex(item.selectedSwap)
        v == verify_token_and_get_swap_data(
                 item.token, {NOT_USED}, REGISTERED, selected_swap_key, fail)
        hashed_token == sha256d(a2b_base58(item.token))
        d1 == SetAttr(Val(v.data), "swap_status", INITIATED)
        d2 == SetAttr(d1, "i_contract", item.contract)
        d3 == SetAttr(d2, "i_raw_tx", item.rawTransaction)
        d4 == SetAttr(d3, "i_addr", item.receiveAddress)
        selected_swap_data == SetAttr(d4, "i_token_hash", hashed_token)
        c == change_token_status(hashed_token, INITIATOR, fail)
        u == update_swap(selected_swap_key, selected_swap_data, c.err, fail)
    IN  IF v.raised # NoneStr THEN ReadOnly(Unhandled(v.raised))
        ELSE IF v.result # None
        THEN ReadOnly(JSONResponse(StatusOf(Val(v.result)), Val(v.result)))
        ELSE Outcome(JSONResponse(StatusOf(u.result), u.result), c.token_db, u.tx_db)

\* get_initiator_info that cancels a swap whose status it cannot report.
get_initiator_info_handler_cancels(item, fail) ==
    LET m == token_status_msg(item.token, {PARTICIPATOR}, fail)
        msg == IF m.msg = TOKEN_USED THEN NoneStr ELSE m.msg
        hashed_token == sha256d(a2b_base58(item.token))
        got == TxDB_get(hashed_token)
        swap_data == Val(got)
    IN  IF m.raised # NoneStr THEN ReadOnly(Unhandled(m.raised))
        ELSE IF msg # NoneStr /\ msg # ""
        THEN ReadOnly(JSONResponse(400, [status |-> FAILED, error |-> msg]))
        ELSE IF TxDB_get_raises(hashed_token, fail) THEN ReadOnly(Unhandled(IOError))
        ELSE IF got = None THEN ReadOnly(Unhandled("AttributeError"))
        ELSE IF REGISTERED < swap_data.swap_status /\ swap_data.swap_status < COMPLETED
        THEN IF ~HasAttr(swap_data, "i_contract") \/ swap_data.i_token_hash = None
             THEN ReadOnly(Unhandled("AttributeError"))
             ELSE ReadOnly(JSONResponse(200,
                    [status |-> SUCCESS,
                     initiatorAddress |-> swap_data.i_addr,
                     initiateContract |-> swap_data.i_contract,
                     initiateRawTransaction |-> swap_data.i_raw_tx,
                     tokenHash |-> hex(swap_data.i_token_hash)]))
        ELSE Outcome(JSONResponse(400,
                [status |-> FAILED, initiatorAddress |-> NoneStr, tokenHash |-> NoneStr,
                 initiateContract |-> NoneStr, initiateRawTransaction |-> NoneStr,
                 error |-> SWAP_STATUS_INVALID]),
                token_db, TxDB_put(hashed_token, SetAttr(swap_data, "swap_status", CANCELED)))

\* POST /get_initiator_info/
\* The message of token_status_msg is compared with ErrorMessages.TOKEN_USED,
\* taken to be equal to the text of db.py:214 (spec 4.3: this endpoint
\* accepts a used token).  Line 327 reads swap_data.i_contract, which
\* TxDBData.from_dict never sets.
get_initiator_info_handler(item, fail) ==
    LET m == token_status_msg(item.token, {PARTICIPATOR}, fail)
        msg == IF m.msg = TOKEN_USED THEN NoneStr ELSE m.msg
        hashed_token == sha256d(a2b_base58(item.token))
        got == TxDB_get(hashed_token)
        swap_data == Val(got)
    IN  IF m.raised # NoneStr THEN ReadOnly(Unhandled(m.raised))
        ELSE IF msg # NoneStr /\ msg # ""
        THEN ReadOnly(JSONResponse(400, [status |-> FAILED, error |-> msg]))
        ELSE IF TxDB_get_raises(hashed_token, fail) THEN ReadOnly(Unhandled(IOError))
        ELSE IF got = None THEN ReadOnly(Unhandled("AttributeError"))
        ELSE IF REGISTERED < swap_data.swap_status /\ swap_data.swap_status < COMPLETED
        THEN IF ~HasAttr(swap_data, "i_contract") \/ swap_data.i_token_hash = None
             THEN ReadOnly(Unhandled("AttributeError"))
             ELSE ReadOnly(JSONResponse(200,
                    [status |-> SUCCESS,
                     initiatorAddress |-> swap_data.i_addr,
                     initiateContract |-> swap_data.i_contract,
                     initiateRawTransaction |-> swap_data.i_raw_tx,
                     tokenHash |-> hex(swap_data.i_token_hash)]))
        ELSE ReadOnly(JSONResponse(400,
                [status |-> FAILED, initiatorAddress |-> NoneStr, tokenHash |-> NoneStr,
                 initiateContract |-> NoneStr, initiateRawTransaction |-> NoneStr,
                 error |-> SWAP_STATUS_INVALID]))

\* POST /participate_swap/
\* The fourth positional argument of the call, [ErrorMessages.TOKEN_USED],
\* binds to selected_swap_key.
participate_swap_handler(item, fail) ==
    LET v == verify_token_and_get_swap_data(
                 item.token, {PARTICIPATOR}, INITIATED, <<TOKEN_USED>>, fail)
        hashed_token == v.key
        d1 == SetAttr(Val(v.data), "swap_status", PARTICIPATED)
        d2 == SetAttr(d1, "p_contract", item.contract)
        swap_data == SetAttr(d2, "p_raw_tx", item.rawTransaction)
        u == update_swap(hashed_token, swap_data, NoneStr, fail)
    IN  IF v.raised # NoneStr THEN ReadOnly(Unhandled(v.raised))
        ELSE IF v.result # None
        THEN ReadOnly(JSONResponse(StatusOf(Val(v.result)), Val(v.result)))
        ELSE Outcome(JSONResponse(StatusOf(u.result), u.result), token_db, u.tx_db)

\* GET /get_participator_info/
get_participator_info_handler(item, fail) ==
    IF ~IsHex(item.selectedSwap) THEN ReadOnly(Unhandled("binascii.Error"))
    ELSE
    LET selected_swap_key == a2b_hex(item.selectedSwap)
        v == verify_token_and_get_swap_data(
                 item.token, {INITIATOR}, PARTICIPATED, selected_swap_key, fail)
        selected_swap_data == Val(v.data)
    IN  IF v.raised # NoneStr THEN ReadOnly(Unhandled(v.raised))
        ELSE IF v.result # None
        THEN ReadOnly(JSONResponse(StatusOf(Val(v.result)), Val(v.result)))
        ELSE IF /\ PARTICIPATED < selected_swap_data.swap_status
                /\ selected_swap_data.swap_status < COMPLETED
        THEN IF ~HasAttr(selected_swap_data, "p_contract")
             THEN ReadOnly(Unhandled("AttributeError"))
             ELSE ReadOnly(JSONResponse(200,
                    [status |-> SUCCESS,
                     participateContract |-> selected_swap_data.p_contract,
                     participateRawTransaction |-> selected_swap_data.p_raw_tx]))
        ELSE ReadOnly(JSONResponse(400,
                [status |-> FAILED, participateContract |-> NoneStr,
                 participateRawTransaction |-> NoneStr, error |-> SWAP_STATUS_INVALID]))

\* POST /redeem_swap/
\* The call passes five positional arguments to
\* verify_token_and_get_swap_data, which takes four: Python raises TypeError
\* at the call, before any store is read.
redeem_swap_handler(item, fail) ==
    IF ~IsHex(item.selectedSwap) THEN ReadOnly(Unhandled("binascii.Error"))
    ELSE ReadOnly(Unhandled("TypeError"))

\* BitcoinTx.from_hex(raw).txs_in, each input's script as
\* ScriptTools.opcode_list shows it: <<"[", payload>> is a data push "[hex]",
\* <<"OP", name>> an opcode.
opcode_lists(raw_tx) ==
    CASE raw_tx = "tx_push_1" ->
            << << <<"OP", "OP_0">>, <<"[", 0>> >>, << <<"[", 1>>, <<"OP", "OP_1">> >> >>
      [] raw_tx = "tx_push_none" ->
            << << <<"[", 0>>, <<"OP", "OP_0">> >> >>
      [] OTHER -> << >>

\* The inner loop of get_redeem_token (lines 466-474): the first push of the
\* script that hashes to i_token_hash, else the token found so far.
RECURSIVE scan_script(_, _, _)
scan_script(parsed_script, i_token_hash, token) ==
    IF parsed_script = << >> THEN token
    ELSE LET data == Head(parsed_script)
         IN  IF data[1] = "[" /\ sha256d(data[2]) = i_token_hash
             THEN Some(data[2])
             ELSE scan_script(Tail(parsed_script), i_token_hash, token)

\* The outer loop (lines 464-465): every input is scanned.
RECURSIVE scan_inputs(_, _, _)
scan_inputs(txs_in, i_token_hash, token) ==
    IF txs_in = << >> THEN token
    ELSE scan_inputs(Tail(txs_in), i_token_hash,
                     scan_script(Head(txs_in), i_token_hash, token))

\* POST /get_redeem_token/
get_redeem_token_handler(item, fail) ==
    LET v == verify_token_and_get_swap_data(
                 item.token, {PARTICIPATOR}, REDEEMED, <<TOKEN_USED>>, fail)
        swap_data == Val(v.data)
        token == scan_inputs(opcode_lists(swap_data.i_redeem_raw_tx),
                             swap_data.i_token_hash, None)
    IN  IF v.raised # NoneStr THEN ReadOnly(Unhandled(v.raised))
        ELSE IF v.result # None
        THEN ReadOnly(JSONResponse(StatusOf(Val(v.result)), Val(v.result)))
        ELSE IF token = None
        THEN ReadOnly(JSONResponse(400,
                [status |-> FAILED, token |-> None, error |-> FATAL_ERROR]))
        ELSE ReadOnly(JSONResponse(200, [status |-> SUCCESS, token |-> hex(Val(token))]))

\* POST /complete_swap/
complete_swap_handler(item, fail) ==
    LET v == verify_token_and_get_swap_data(
                 item.token, {PARTICIPATOR}, REDEEMED, <<TOKEN_USED>>, fail)
        hashed_token == v.key
        d1 == SetAttr(Val(v.data), "swap_status", COMPLETED)
        swap_data == SetAttr(d1, "p_redeem_raw_tx", item.rawTransaction)
        u == update_swap(hashed_token, swap_data, NoneStr, fail)
    IN  IF v.raised # NoneStr THEN ReadOnly(Unhandled(v.raised))
        ELSE IF v.result # None
        THEN ReadOnly(JSONResponse(StatusOf(Val(v.result)), Val(v.result)))
        ELSE Outcome(JSONResponse(StatusOf(u.result), u.result), token_db, u.tx_db)

----------------------------------------------------------------------------
\* The requests in flight.  uvicorn runs each request in its own asyncio
\* task on the one event loop of the process (api_spawn refuses workers > 1).
\* A task is idle, holds a request it has read ("accepted"), or has sent
\* the answer ("answered").
Tasks == {"task_a", "task_b", "task_c"}
Idle == [endpoint |-> "", item |-> << >>, pc |-> "idle", response |-> << >>]

----------------------------------------------------------------------------
\* The state machine: one action per endpoint.

\* The s4 server after construction: both stores empty, no request answered
\* but the one to "/".
s4_Init ==
    /\ s4_token_db = << >>
    /\ s4_tx_db = << >>
    /\ s4_response = JSONResponse(200, [message |-> "This server is working."])

Init ==
    /\ token_db = << >>
    /\ tx_db = << >>
    /\ clock = 1600000000
    /\ request = [endpoint |-> "/", item |-> << >>]
    /\ response = JSONResponse(200, [message |-> "This server is working."])
    /\ succeeded = {}
    /\ initiated = << >>
    /\ faults = {}
    /\ tasks = [t \in Tasks |-> Idle]
    /\ s4_Init

\* The state of the stores and of the history after a handler has answered
\* the request with Outcome `o` while the storage operations in `fail` raised.
Respond(endpoint, item, o, fail) ==
    /\ faults' = fail
    /\ request' = [endpoint |-> endpoint, item |-> item]
    /\ response' = o.response
    /\ token_db' = o.token_db
    /\ tx_db' = o.tx_db
    /\ succeeded' =
         IF /\ endpoint \in {"register_swap", "initiate_swap", "participate_swap",
                             "redeem_swap", "complete_swap"}
            /\ Get(o.response.content, "status") = SUCCESS
         THEN succeeded \cup {<<endpoint, item.token>>}
         ELSE succeeded
    /\ initiated' =
         IF endpoint = "initiate_swap" /\ Get(o.response.content, "status") = SUCCESS
         THEN [k \in DOMAIN initiated \cup {a2b_hex(item.selectedSwap)} |->
                  IF k = a2b_hex(item.selectedSwap) THEN item ELSE initiated[k]]
         ELSE initiated

\* A request answered as soon as it is read: no other request is in flight.
ServeWith(endpoint, item, o, fail) ==
    /\ Respond(endpoint, item, o, fail)
    /\ UNCHANGED <<tasks, s4_vars>>

\* The state after a handler has answered the request with no storage failure.
Serve(endpoint, item, o) == ServeWith(endpoint, item, o, NoFail)

\* secrets.token_bytes(64) never repeats a value it has returned: an issued
\* token is not issued again.
get_token ==
    \E raw_token \in RawTokens, now \in {t \in Times : t >= clock} :
        /\ sha256d(raw_token) \notin DOMAIN token_db
        /\ clock' = now
        /\ Serve("get_token", << >>, get_token_handler(raw_token, now, NoFail))

verify_token ==
    \E item \in TokenItem :
        /\ Serve("verify_token", item, verify_token_handler(item, NoFail))
        /\ UNCHANGED clock

register_swap ==
    \E item \in RegisterSwapItem :
        /\ Serve("register_swap", item, register_swap_handler(item, NoFail))
        /\ UNCHANGED clock

get_swap_list ==
    /\ Serve("get_swap_list", << >>, get_swap_list_handler(NoFail))
    /\ UNCHANGED clock

initiate_swap ==
    \E item \in InitiateSwapItem :
        /\ Serve("initiate_swap", item, initiate_swap_handler(item, NoFail))
        /\ UNCHANGED clock

get_initiator_info ==
    \E item \in TokenItem :
        /\ Serve("get_initiator_info", item, get_initiator_info_handler(item, NoFail))
        /\ UNCHANGED clock

participate_swap ==
    \E item \in TokenAndTxAndContractItem :
        /\ Serve("participate_swap", item, participate_swap_handler(item, NoFail))
        /\ UNCHANGED clock

get_participator_info ==
    \E item \in TokenAndSelectedSwapItem :
        /\ Serve("get_participator_info", item, get_participator_info_handler(item, NoFail))
        /\ UNCHANGED clock

redeem_swap ==
    \E item \in RedeemSwapItem :
        /\ Serve("redeem_swap", item, redeem_swap_handler(item, NoFail))
        /\ UNCHANGED clock

get_redeem_token ==
    \E item \in TokenItem :
        /\ Serve("get_redeem_token", item, get_redeem_token_handler(item, NoFail))
        /\ UNCHANGED clock

complete_swap ==
    \E item \in TokenAndTxItem :
        /\ Serve("complete_swap", item, complete_swap_handler(item, NoFail))
        /\ UNCHANGED clock

Next ==
    \/ get_token
    \/ verify_token
    \/ register_swap
    \/ get_swap_list
    \/ initiate_swap
    \/ get_initiator_info
    \/ participate_swap
    \/ get_participator_info
    \/ redeem_swap
    \/ get_redeem_token
    \/ complete_swap

Spec == Init /\ [][Next]_vars

----------------------------------------------------------------------------
\* A server started on stores that already hold records.  token_db and tx_db
\* are plyvel databases under db_base_path, opened with
\* create_if_missing=True (DBBase.__init__): a process starts on whatever an
\* earlier process left there (spec 6.2: values survive process restart).

\* The TxDBData of a swap at `stage` of the lifecycle, with the fields the
\* handlers of api.py set on the way there: offer o (register_swap),
\* initiation i by the token with raw bytes 1 (initiate_swap), p_tx
\* (participate_swap, complete_swap) and r_tx (redeem_swap).
StoredSwap(stage, o, i, p_tx, r_tx) ==
    LET d0 == TxDBData(o.wantCurrency, o.sendAmount, o.sendCurrency, o.wantAmount,
                       o.receiveAddress)
        d1 == IF stage >= INITIATED
              THEN [d0 EXCEPT !.i_raw_tx = i.rawTransaction, !.i_addr = i.receiveAddress,
                              !.i_token_hash = sha256d(1)]
              ELSE d0
        d2 == IF stage >= PARTICIPATED THEN [d1 EXCEPT !.p_raw_tx = p_tx] ELSE d1
        d3 == IF stage >= REDEEMED THEN [d2 EXCEPT !.i_redeem_raw_tx = r_tx] ELSE d2
        d4 == IF stage >= COMPLETED THEN [d3 EXCEPT !.p_redeem_raw_tx = p_tx] ELSE d3
    IN  [d4 EXCEPT !.swap_status = stage]

\* The token store that goes with it: the participator's token (raw bytes 2)
\* and the initiator's (raw bytes 1), each in the role its calls gave it.
StoredTokens(stage) ==
    (sha256d(1) :> TokenDBData_asdict(
                       SetAttr(TokenDBData(1600000000), "token_status",
                               IF stage >= INITIATED THEN INITIATOR ELSE NOT_USED)))
    @@ (sha256d(2) :> TokenDBData_asdict(
                          SetAttr(TokenDBData(1600000000), "token_status", PARTICIPATOR)))

\* The process starts on empty stores, or on stores that hold one swap (under
\* the participator's hashed token) at some stage of its lifecycle.
StoredInit ==
    /\ \/ token_db = << >> /\ tx_db = << >>
       \/ \E stage \in REGISTERED..COMPLETED, o \in Offers, i \in Initiations,
             p_tx \in RawTxs, r_tx \in RawTxs :
             /\ token_db = StoredTokens(stage)
             /\ tx_db = (sha256d(2) :> TxDBData_asdict(StoredSwap(stage, o, i, p_tx, r_tx)))
    /\ clock = 1600000000
    /\ request = [endpoint |-> "/", item |-> << >>]
    /\ response = JSONResponse(200, [message |-> "This server is working."])
    /\ succeeded = {}
    /\ initiated = << >>
    /\ faults = {}
    /\ tasks = [t \in Tasks |-> Idle]
    /\ s4_Init

StoredSpec == StoredInit /\ [][Next]_vars

----------------------------------------------------------------------------
\* The server on stores whose operations may raise (plyvel raises IOError,
\* among others).  Each request is answered while some of the storage
\* operations its handler calls raise.  All requests fall within the same
\* second of time.time(), and all clients submit the same offer, initiation
\* and raw transaction: what a handler does on a storage failure depends on
\* neither.

\* The storage operations a request to an endpoint reaches.  redeem_swap
\* raises before it reaches any; participate_swap and complete_swap raise
\* before their tx_db.put.
StorageOps(endpoint) ==
    CASE endpoint = "get_token" -> {"token_db.put"}
      [] endpoint = "verify_token" -> {"token_db.get"}
      [] endpoint \in {"register_swap", "initiate_swap"} ->
            {"token_db.get", "tx_db.get", "token_db.put", "tx_db.put"}
      [] endpoint = "get_swap_list" -> {"tx_db.get_all"}
      [] endpoint \in {"get_initiator_info", "get_participator_info", "get_redeem_token",
                       "participate_swap", "complete_swap"} ->
            {"token_db.get", "tx_db.get"}
      [] endpoint = "redeem_swap" -> {}

\* The operations that raise during one request: any of the writes, or one
\* of the reads.
FaultSets(endpoint) ==
    {fail \in SUBSET StorageOps(endpoint) :
        fail \subseteq {"token_db.put", "tx_db.put"} \/ Cardinality(fail) = 1}

\* The request bodies among `items` that carry the one offer, initiation and
\* raw transaction submitted under faults.
UniformItems(items) ==
    {i \in items :
        /\ ("wantCurrency" \in DOMAIN i) => (i.wantCurrency = "BTC")
        /\ ("rawTransaction" \in DOMAIN i) =>
              (i.rawTransaction \in {"0200000000010129", "tx_push_1"})}

get_token_with_faults ==
    \E raw_token \in RawTokens, now \in {clock}, fail \in FaultSets("get_token") :
        /\ sha256d(raw_token) \notin DOMAIN token_db
        /\ clock' = now
        /\ ServeWith("get_token", << >>, get_token_handler(raw_token, now, fail), fail)

verify_token_with_faults ==
    \E item \in TokenItem, fail \in FaultSets("verify_token") :
        /\ ServeWith("verify_token", item, verify_token_handler(item, fail), fail)
        /\ UNCHANGED clock

register_swap_with_faults ==
    \E item \in UniformItems(RegisterSwapItem), fail \in FaultSets("register_swap") :
        /\ ServeWith("register_swap", item, register_swap_handler(item, fail), fail)
        /\ UNCHANGED clock

get_swap_list_with_faults ==
    \E fail \in FaultSets("get_swap_list") :
        /\ ServeWith("get_swap_list", << >>, get_swap_list_handler(fail), fail)
        /\ UNCHANGED clock

initiate_swap_with_faults ==
    \E item \in UniformItems(InitiateSwapItem), fail \in FaultSets("initiate_swap") :
        /\ ServeWith("initiate_swap", item, initiate_swap_handler(item, fail), fail)
        /\ UNCHANGED clock

get_initiator_info_with_faults ==
    \E item \in TokenItem, fail \in FaultSets("get_initiator_info") :
        /\ ServeWith("get_initiator_info", item, get_initiator_info_handler(item, fail), fail)
        /\ UNCHANGED clock

participate_swap_with_faults ==
    \E item \in UniformItems(TokenAndTxAndContractItem), fail \in FaultSets("participate_swap") :
        /\ ServeWith("participate_swap", item, participate_swap_handler(item, fail), fail)
        /\ UNCHANGED clock

get_participator_info_with_faults ==
    \E item \in TokenAndSelectedSwapItem, fail \in FaultSets("get_participator_info") :
        /\ ServeWith("get_participator_info", item,
                     get_participator_info_handler(item, fail), fail)
        /\ UNCHANGED clock

redeem_swap_with_faults ==
    \E item \in UniformItems(RedeemSwapItem), fail \in FaultSets("redeem_swap") :
        /\ ServeWith("redeem_swap", item, redeem_swap_handler(item, fail), fail)
        /\ UNCHANGED clock

get_redeem_token_with_faults ==
    \E item \in TokenItem, fail \in FaultSets("get_redeem_token") :
        /\ ServeWith("get_redeem_token", item, get_redeem_token_handler(item, fail), fail)
        /\ UNCHANGED clock

complete_swap_with_faults ==
    \E item \in UniformItems(TokenAndTxItem), fail \in FaultSets("complete_swap") :
        /\ ServeWith("complete_swap", item, complete_swap_handler(item, fail), fail)
        /\ UNCHANGED clock

NextWithFaults ==
    \/ get_token_with_faults
    \/ verify_token_with_faults
    \/ register_swap_with_faults
    \/ get_swap_list_with_faults
    \/ initiate_swap_with_faults
    \/ get_initiator_info_with_faults
    \/ participate_swap_with_faults
    \/ get_participator_info_with_faults
    \/ redeem_swap_with_faults
    \/ get_redeem_token_with_faults
    \/ complete_swap_with_faults

FaultSpec == Init /\ [][NextWithFaults]_vars

----------------------------------------------------------------------------
\* Requests in flight at the same time.  Every endpoint is an `async def`
\* whose body has no await: once the event loop runs a handler, its store
\* calls (plyvel, synchronous) run to the return without another task being
\* scheduled.  Requests that are in flight together are therefore answered
\* one handler at a time, in any order.  ConcurrentSpec starts with the
\* token of every party issued and up to three requests read, and answers
\* them in every order.

\* The requests of ConcurrentSpec: the endpoints that write a swap record,
\* each party's token, one offer, one initiation, one raw transaction.
ConcurrentTokenTexts == {b2a_base58(r) : r \in Parties}
ConcurrentRequests ==
    LET swaps == {hex(k) : k \in Keys}
        offers == {o \in Offers : o.wantCurrency = "BTC"}
        initiations == {i \in Initiations : i.rawTransaction = "0200000000010129"}
        endpoints == [register_swap |->
                          {[token |-> t, wantCurrency |-> o.wantCurrency,
                            wantAmount |-> o.wantAmount, sendCurrency |-> o.sendCurrency,
                            sendAmount |-> o.sendAmount,
                            receiveAddress |-> o.receiveAddress] :
                               t \in ConcurrentTokenTexts, o \in offers},
                      initiate_swap |->
                          {[token |-> t, selectedSwap |-> x, contract |-> i.contract,
                            rawTransaction |-> i.rawTransaction,
                            receiveAddress |-> i.receiveAddress] :
                               t \in ConcurrentTokenTexts, x \in swaps, i \in initiations},
                      participate_swap |->
                          {[token |-> t, rawTransaction |-> "tx_push_1", contract |-> c] :
                               t \in ConcurrentTokenTexts, c \in Contracts},
                      redeem_swap |->
                          {[token |-> t, selectedSwap |-> x, rawTransaction |-> "tx_push_1"] :
                               t \in ConcurrentTokenTexts, x \in swaps},
                      complete_swap |->
                          {[token |-> t, rawTransaction |-> "tx_push_1"] :
                               t \in ConcurrentTokenTexts}]
    IN  UNION {{[endpoint |-> e, item |-> i, pc |-> "accepted", response |-> << >>] :
                   i \in endpoints[e]} : e \in DOMAIN endpoints}

ConcurrentInit ==
    /\ token_db = [h \in Keys |-> TokenDBData_asdict(TokenDBData(1600000000))]
    /\ tx_db = << >>
    /\ clock = 1600000000
    /\ request = [endpoint |-> "/", item |-> << >>]
    /\ response = JSONResponse(200, [message |-> "This server is working."])
    /\ succeeded = {}
    /\ initiated = << >>
    /\ faults = {}
    /\ tasks \in [Tasks -> ConcurrentRequests \cup {Idle}]
    /\ s4_Init

\* The event loop runs the handler of task t to its return.
Run(t, o) ==
    /\ Respond(tasks[t].endpoint, tasks[t].item, o, NoFail)
    /\ tasks' = [tasks EXCEPT ![t].pc = "answered", ![t].response = o.response]
    /\ UNCHANGED <<clock, s4_vars>>

Accepted(t, endpoint) == tasks[t].pc = "accepted" /\ tasks[t].endpoint = endpoint

register_swap_task ==
    \E t \in Tasks :
        /\ Accepted(t, "register_swap")
        /\ Run(t, register_swap_handler(tasks[t].item, NoFail))

initiate_swap_task ==
    \E t \in Tasks :
        /\ Accepted(t, "initiate_swap")
        /\ Run(t, initiate_swap_handler(tasks[t].item, NoFail))

participate_swap_task ==
    \E t \in Tasks :
        /\ Accepted(t, "participate_swap")
        /\ Run(t, participate_swap_handler(tasks[t].item, NoFail))

redeem_swap_task ==
    \E t \in Tasks :
        /\ Accepted(t, "redeem_swap")
        /\ Run(t, redeem_swap_handler(tasks[t].item, NoFail))

complete_swap_task ==
    \E t \in Tasks :
        /\ Accepted(t, "complete_swap")
        /\ Run(t, complete_swap_handler(tasks[t].item, NoFail))

ConcurrentNext ==
    \/ register_swap_task
    \/ initiate_swap_task
    \/ participate_swap_task
    \/ redeem_swap_task
    \/ complete_swap_task

ConcurrentSpec == ConcurrentInit /\ [][ConcurrentNext]_vars

----------------------------------------------------------------------------
\* Properties.  A step of Spec answers request' with response'; the unprimed
\* stores are the stores the handler found.

Error(resp) == Get(resp.content, "error")
Succeeded(resp) == resp.raised = NoneStr /\ Get(resp.content, "status") = SUCCESS
Rejected(resp, msg) ==
    resp.raised = NoneStr /\ resp.status_code = 400 /\ Error(resp) = msg
StoresUnchanged == token_db' = token_db /\ tx_db' = tx_db

\* The swap key an endpoint addresses: selectedSwap where the request has
\* one, the caller's hashed token otherwise.
SwapKeyOf(req) ==
    IF req.endpoint \in {"initiate_swap", "get_participator_info", "redeem_swap"}
    THEN a2b_hex(req.item.selectedSwap)
    ELSE HashOf(req.item.token)

\* The token roles an endpoint expects (spec 4.3).
ExpectedRoles(endpoint) ==
    CASE endpoint \in {"register_swap", "initiate_swap"} -> {NOT_USED}
      [] endpoint \in {"participate_swap", "get_initiator_info",
                       "get_redeem_token", "complete_swap"} -> {PARTICIPATOR}
      [] endpoint \in {"get_participator_info", "redeem_swap"} -> {INITIATOR}

\* The swap status a transition endpoint requires (spec 4.2).
RequiredStatus(endpoint) ==
    CASE endpoint = "initiate_swap" -> REGISTERED
      [] endpoint = "participate_swap" -> INITIATED
      [] endpoint = "redeem_swap" -> PARTICIPATED
      [] endpoint = "complete_swap" -> REDEEMED

TransitionEndpoints == {"initiate_swap", "participate_swap", "redeem_swap", "complete_swap"}
TokenGatedEndpoints ==
    {"register_swap", "initiate_swap", "participate_swap", "get_initiator_info",
     "get_redeem_token", "complete_swap", "get_participator_info", "redeem_swap"}

\* C1: over any sequence of endpoint calls the status of the swap under a
\* key walks REGISTERED, INITIATED, PARTICIPATED, REDEEMED, COMPLETED: a
\* record appears as REGISTERED, is never removed, and each step leaves its
\* status or moves it to the next one, never past COMPLETED.
C1_StatusIsPrefix ==
    [][\A k \in Keys :
          /\ (k \in DOMAIN tx_db) =>
                /\ k \in DOMAIN tx_db'
                /\ tx_db'[k].swap_status \in
                       {tx_db[k].swap_status, tx_db[k].swap_status + 1}
                /\ tx_db'[k].swap_status <= COMPLETED
          /\ (k \notin DOMAIN tx_db /\ k \in DOMAIN tx_db') =>
                tx_db'[k].swap_status = REGISTERED]_vars

\* C1 witness: initiate_swap has just moved a registered swap to INITIATED.
C1_Witness ==
    /\ request.endpoint = "initiate_swap"
    /\ Succeeded(response)
    /\ \E t \in TokenTexts :
          HashOf(t) = SwapKeyOf(request) /\ <<"register_swap", t>> \in succeeded
    /\ tx_db[SwapKeyOf(request)].swap_status = INITIATED

\* C2: a transition endpoint called with a correctly-roled token on an
\* existing swap whose status is not the required one answers 400 with
\* SWAP_PROGRESS and leaves both stores unchanged.
C2_WrongStatusIsSwapProgress ==
    [][(request'.endpoint \in TransitionEndpoints) =>
          LET h == HashOf(request'.item.token)
              k == SwapKeyOf(request')
          IN  (/\ h \in DOMAIN token_db
               /\ token_db[h].token_status \in ExpectedRoles(request'.endpoint)
               /\ k \in DOMAIN tx_db
               /\ tx_db[k].swap_status # RequiredStatus(request'.endpoint))
              => (Rejected(response', SWAP_PROGRESS) /\ StoresUnchanged)]_vars

\* C3: a token record changes status at most once, from NOT_USED to
\* INITIATOR or to PARTICIPATOR; token records are never removed.
C3_TokenRoleMonotone ==
    [][\A h \in DOMAIN token_db :
          /\ h \in DOMAIN token_db'
          /\ \/ token_db'[h].token_status = token_db[h].token_status
             \/ /\ token_db[h].token_status = NOT_USED
                /\ token_db'[h].token_status \in {INITIATOR, PARTICIPATOR}]_vars

\* C3 witness: one token has become PARTICIPATOR and another INITIATOR, and
\* a further call has been answered since.
C3_Witness ==
    /\ \E h \in DOMAIN token_db : token_db[h].token_status = PARTICIPATOR
    /\ \E h \in DOMAIN token_db : token_db[h].token_status = INITIATOR
    /\ request.endpoint \in {"register_swap", "initiate_swap"}
    /\ ~Succeeded(response)

\* C4: every token-gated endpoint called with a stored token whose status is
\* not one of the endpoint's expected roles answers 400 with
\* TOKEN_STATUS_INVALID and changes neither store.
C4_WrongRoleIsTokenStatusInvalid ==
    [][(request'.endpoint \in TokenGatedEndpoints) =>
          LET h == HashOf(request'.item.token)
          IN  (/\ h \in DOMAIN token_db
               /\ token_db[h].token_status \notin ExpectedRoles(request'.endpoint))
              => (Rejected(response', TOKEN_STATUS_INVALID) /\ StoresUnchanged)]_vars

\* C5: token binding.  Every swap key is the key of a PARTICIPATOR token,
\* and the i_token_hash of every swap that is INITIATED or later is the key
\* of an INITIATOR token.
C5_TokenBinding ==
    \A k \in DOMAIN tx_db :
        /\ k \in DOMAIN token_db
        /\ token_db[k].token_status = PARTICIPATOR
        /\ (tx_db[k].swap_status >= INITIATED) =>
              /\ tx_db[k].i_token_hash \in DOMAIN token_db
              /\ token_db[tx_db[k].i_token_hash].token_status = INITIATOR

\* C5 witness: a swap has been initiated and carries its initiator's hash.
C5_Witness ==
    \E k \in DOMAIN tx_db :
        /\ tx_db[k].swap_status = INITIATED
        /\ tx_db[k].i_token_hash # None
        /\ tx_db[k].i_token_hash # k

\* C6: once register_swap has succeeded with a token, every later
\* register_swap with that token answers 400 with TOKEN_STATUS_INVALID and
\* leaves the swap record under the token's hash as it was.
C6_ReRegisterRejected ==
    [][(/\ request'.endpoint = "register_swap"
        /\ <<"register_swap", request'.item.token>> \in succeeded) =>
          LET k == HashOf(request'.item.token)
          IN  /\ Rejected(response', TOKEN_STATUS_INVALID)
              /\ k \in DOMAIN tx_db /\ k \in DOMAIN tx_db'
              /\ tx_db'[k] = tx_db[k]]_vars

\* C6 witness: a second register_swap with the token of a swap that has
\* already been initiated was rejected.
C6_Witness ==
    /\ request.endpoint = "register_swap"
    /\ <<"register_swap", request.item.token>> \in succeeded
    /\ Rejected(response, TOKEN_STATUS_INVALID)
    /\ tx_db[HashOf(request.item.token)].swap_status = INITIATED

\* C7: register_swap with a well-formed token that get_token never issued
\* answers 400 with TOKEN_INVALID and changes neither store.
C7_UnknownTokenRejected ==
    [][(/\ request'.endpoint = "register_swap"
        /\ HashOf(request'.item.token) \notin DOMAIN token_db) =>
          (Rejected(response', TOKEN_INVALID) /\ StoresUnchanged)]_vars

\* C7 witness: register_swap with a token that was never issued was
\* rejected while another token's swap record exists.
C7_Witness ==
    /\ request.endpoint = "register_swap"
    /\ HashOf(request.item.token) \notin DOMAIN token_db
    /\ Rejected(response, TOKEN_INVALID)
    /\ DOMAIN tx_db # {}

\* The hex keys of the records whose status is REGISTERED.
RegisteredHexKeys == {hex(k) : k \in {j \in DOMAIN tx_db : tx_db[j].swap_status = REGISTERED}}

\* C8: in every state get_swap_list returns exactly the keys of the
\* REGISTERED records, and the answer of a get_swap_list call lists exactly
\* those.
C8_ListIsRegistered ==
    /\ DOMAIN get_swap_list_handler(NoFail).response.content.data = RegisteredHexKeys
    /\ (request.endpoint = "get_swap_list") =>
          DOMAIN response.content.data = RegisteredHexKeys

\* C8 witness: get_swap_list has answered while an INITIATED swap is stored,
\* and its answer does not list it.
C8_Witness ==
    /\ request.endpoint = "get_swap_list"
    /\ Succeeded(response)
    /\ \E k \in DOMAIN tx_db :
          /\ tx_db[k].swap_status = INITIATED
          /\ hex(k) \notin DOMAIN response.content.data

\* C9: a successful register_swap creates a REGISTERED record under the
\* hash of its token, and get_swap_list then shows the offer under that key
\* with the want/send amounts on the opposite sides.
C9_RegisterThenList ==
    [][(request'.endpoint = "register_swap" /\ Succeeded(response')) =>
          LET item == request'.item
              k == HashOf(item.token)
              shown == get_swap_list_handler(NoFail)'.response.content.data
          IN  /\ k \notin DOMAIN tx_db
              /\ k \in DOMAIN tx_db'
              /\ tx_db'[k].swap_status = REGISTERED
              /\ hex(k) \in DOMAIN shown
              /\ shown[hex(k)] =
                    [initiatorCurrency |-> item.wantCurrency,
                     initiatorReceiveAmount |-> item.sendAmount,
                     participatorCurrency |-> item.sendCurrency,
                     participatorReceiveAmount |-> item.wantAmount,
                     participatorAddress |-> item.receiveAddress]]_vars

\* C9 witness: register_swap has just succeeded and its record is REGISTERED.
C9_Witness ==
    /\ request.endpoint = "register_swap"
    /\ Succeeded(response)
    /\ HashOf(request.item.token) \in DOMAIN tx_db
    /\ tx_db[HashOf(request.item.token)].swap_status = REGISTERED

\* C10: a successful initiate_swap by a NOT_USED token on a REGISTERED swap
\* under key k makes the token INITIATOR and rewrites the record under k
\* with status INITIATED, the caller's hash as i_token_hash and the
\* submitted contract, raw transaction and receive address; no record is
\* created or moved.
C10_InitiateStoresSubmission ==
    [][(request'.endpoint = "initiate_swap" /\ Succeeded(response')) =>
          LET item == request'.item
              h == HashOf(item.token)
              k == SwapKeyOf(request')
          IN  (/\ h \in DOMAIN token_db /\ token_db[h].token_status = NOT_USED
               /\ k \in DOMAIN tx_db /\ tx_db[k].swap_status = REGISTERED)
              => /\ token_db'[h].token_status = INITIATOR
                 /\ DOMAIN tx_db' = DOMAIN tx_db
                 /\ tx_db'[k].swap_status = INITIATED
                 /\ tx_db'[k].i_token_hash = h
                 /\ tx_db'[k].i_raw_tx = item.rawTransaction
                 /\ tx_db'[k].i_addr = item.receiveAddress
                 /\ Get(tx_db'[k], "i_contract") = item.contract]_vars

\* C11: once a participator has registered with token tp and an initiator
\* has initiated that swap with token ti, get_initiator_info with tp answers
\* Success with the address, contract and raw transaction the initiator
\* submitted and tokenHash = hex(sha256d(decode(ti))).
C11_InitiatorInfoEchoesSubmission ==
    [][(/\ request'.endpoint = "get_initiator_info"
        /\ <<"register_swap", request'.item.token>> \in succeeded
        /\ HashOf(request'.item.token) \in DOMAIN initiated
        /\ tx_db[HashOf(request'.item.token)].swap_status = INITIATED) =>
          LET sent == initiated[HashOf(request'.item.token)]
          IN  /\ Succeeded(response')
              /\ response'.status_code = 200
              /\ Get(response'.content, "initiatorAddress") = sent.receiveAddress
              /\ Get(response'.content, "initiateContract") = sent.contract
              /\ Get(response'.content, "initiateRawTransaction") = sent.rawTransaction
              /\ Get(response'.content, "tokenHash") = hex(HashOf(sent.token))]_vars

\* C12: token records are never deleted and their creation time never
\* changes.  The record of the token a get_token call returns carries the
\* time of issuance; every step, role flips included, keeps every token
\* record and its creation time; and a verify_token call on a stored token
\* answers exist = true with the stored creation time.
C12_TokenRecordKept ==
    [][/\ \A t \in TokenTexts :
             (/\ request'.endpoint = "get_token"
              /\ Succeeded(response')
              /\ response'.content.token = t) =>
                 /\ HashOf(t) \in DOMAIN token_db'
                 /\ token_db'[HashOf(t)].date = clock'
       /\ \A h \in DOMAIN token_db :
             /\ h \in DOMAIN token_db'
             /\ token_db'[h].date = token_db[h].date
       /\ (/\ request'.endpoint = "verify_token"
           /\ HashOf(request'.item.token) \in DOMAIN token_db) =>
             response' =
                 JSONResponse(200, [status |-> SUCCESS, exist |-> TRUE,
                                    create_at |-> token_db[HashOf(request'.item.token)].date])]_vars

\* C12 witness: after a later token was issued at a later time, verify_token
\* on a token whose role has been flipped answers exist = true with the
\* earlier time of its issuance.
C12_Witness ==
    /\ request.endpoint = "verify_token"
    /\ HashOf(request.item.token) \in DOMAIN token_db
    /\ token_db[HashOf(request.item.token)].token_status # NOT_USED
    /\ response.content.exist
    /\ response.content.create_at < clock

\* C13: verify_token with a token that was never issued answers 200 with
\* status Success, exist = false and no creation time, and changes neither
\* store.
C13_UnissuedTokenVerifiesFalse ==
    [][(/\ request'.endpoint = "verify_token"
        /\ HashOf(request'.item.token) \notin DOMAIN token_db) =>
          /\ response' = JSONResponse(200, [status |-> SUCCESS, exist |-> FALSE,
                                            create_at |-> NoneInt])
          /\ StoresUnchanged]_vars

\* C13 witness: verify_token answered exist = false for a token that is not
\* stored while another token is.
C13_Witness ==
    /\ request.endpoint = "verify_token"
    /\ HashOf(request.item.token) \notin DOMAIN token_db
    /\ DOMAIN token_db # {}
    /\ Succeeded(response)
    /\ ~response.content.exist

\* C14: the success path is live.  With no storage failure, each call of
\* the sequence register_swap(tp), initiate_swap(ti, key of tp),
\* participate_swap(tp), redeem_swap(ti, key of tp), complete_swap(tp), made
\* at its turn (the caller's token in the role and the swap in the status the
\* step starts from), answers Success and leaves the swap in the next
\* status, so that the sequence ends with the swap COMPLETED.
C14_SuccessPathLive ==
    [][LET ep == request'.endpoint
           h == HashOf(request'.item.token)
           k == SwapKeyOf(request')
       IN  /\ (/\ ep = "register_swap"
               /\ h \in DOMAIN token_db /\ token_db[h].token_status = NOT_USED
               /\ h \notin DOMAIN tx_db) =>
                 /\ Succeeded(response')
                 /\ h \in DOMAIN tx_db' /\ tx_db'[h].swap_status = REGISTERED
           /\ (/\ ep \in TransitionEndpoints
               /\ h \in DOMAIN token_db
               /\ token_db[h].token_status \in ExpectedRoles(ep)
               /\ k \in DOMAIN tx_db
               /\ tx_db[k].swap_status = RequiredStatus(ep)
               /\ (ep = "redeem_swap") => (tx_db[k].i_token_hash = h)) =>
                 /\ Succeeded(response')
                 /\ tx_db'[k].swap_status = RequiredStatus(ep) + 1]_vars

\* The endpoints a participator calls after register_swap.
ParticipatorFollowUps ==
    {"participate_swap", "get_initiator_info", "get_redeem_token", "complete_swap"}

\* C15: a follow-up call of the participator, made with a PARTICIPATOR token
\* whose hash keys a swap record, is not rejected with TOKEN_USED and
\* proceeds to the swap-status check: it is answered (no exception), with
\* Success or with the rejection the status check or the step after it gives.
C15_FollowUpsNotTokenUsed ==
    [][(/\ request'.endpoint \in ParticipatorFollowUps
        /\ HashOf(request'.item.token) \in DOMAIN token_db
        /\ token_db[HashOf(request'.item.token)].token_status = PARTICIPATOR
        /\ HashOf(request'.item.token) \in DOMAIN tx_db) =>
          /\ Error(response') # TOKEN_USED
          /\ response'.raised = NoneStr
          /\ \/ Succeeded(response')
             \/ Error(response') \in {SWAP_PROGRESS, SWAP_STATUS_INVALID, FATAL_ERROR}]_vars

\* The payloads of the literal data pushes of the input scripts of a raw
\* transaction.
Pushes(raw_tx) ==
    LET ins == opcode_lists(raw_tx)
    IN  {ins[n][j][2] : <<n, j>> \in
            {<<a, b>> \in (DOMAIN ins) \X (1..4) : b \in DOMAIN ins[a] /\ ins[a][b][1] = "["}}

\* The pushes of the stored redeem transaction of the swap under key k that
\* hash to its i_token_hash.
MatchingPushes(k) ==
    {p \in Pushes(tx_db[k].i_redeem_raw_tx) : sha256d(p) = tx_db[k].i_token_hash}

\* get_redeem_token is called by the PARTICIPATOR token of a REDEEMED swap.
RedeemTokenCall ==
    /\ request'.endpoint = "get_redeem_token"
    /\ HashOf(request'.item.token) \in DOMAIN token_db
    /\ token_db[HashOf(request'.item.token)].token_status = PARTICIPATOR
    /\ HashOf(request'.item.token) \in DOMAIN tx_db
    /\ tx_db[HashOf(request'.item.token)].swap_status = REDEEMED

C19_NeverCanceled ==
    \A k \in DOMAIN tx_db : tx_db[k].swap_status # CANCELED

\* C19 witness: a swap has been registered and initiated, and a later
\* transition call on it has been answered.
C19_Witness ==
    /\ request.endpoint \in {"participate_swap", "redeem_swap", "complete_swap"}
    /\ SwapKeyOf(request) \in DOMAIN tx_db
    /\ tx_db[SwapKeyOf(request)].swap_status = INITIATED

\* The role register_swap and initiate_swap give the caller's token.
RoleGiven(endpoint) == IF endpoint = "register_swap" THEN PARTICIPATOR ELSE INITIATOR

\* A register_swap or initiate_swap request passes every check of its
\* handler: the token is stored, NOT_USED and keys no swap, and (for
\* initiate_swap) the selected swap is stored and REGISTERED.
PassesChecks(req) ==
    /\ HashOf(req.item.token) \in DOMAIN token_db
    /\ token_db[HashOf(req.item.token)].token_status = NOT_USED
    /\ HashOf(req.item.token) \notin DOMAIN tx_db
    /\ (req.endpoint = "initiate_swap") =>
          /\ SwapKeyOf(req) \in DOMAIN tx_db
          /\ tx_db[SwapKeyOf(req)].swap_status = REGISTERED

\* C20: register_swap and initiate_swap write the token's role before the
\* swap record.  A step writes the swap store only if it has given the
\* token its role; when the request passes the checks and only the swap
\* write raises, the call answers Failed with an error, the token has its
\* new role and the swap store is as it was; and a token that has a role is
\* never accepted by register_swap or initiate_swap again.
C20_FlipBeforeSwapWrite ==
    [][(request'.endpoint \in {"register_swap", "initiate_swap"}) =>
          LET h == HashOf(request'.item.token)
              role == RoleGiven(request'.endpoint)
          IN  /\ (tx_db' # tx_db) =>
                    /\ h \in DOMAIN token_db /\ token_db[h].token_status = NOT_USED
                    /\ token_db'[h].token_status = role
              /\ (PassesChecks(request') /\ faults' = {"tx_db.put"}) =>
                    /\ response'.raised = NoneStr
                    /\ Get(response'.content, "status") = FAILED
                    /\ Error(response') = UPDATE_SWAP \o IOError
                    /\ token_db'[h].token_status = role
                    /\ tx_db' = tx_db
              /\ (h \in DOMAIN token_db /\ token_db[h].token_status # NOT_USED) =>
                    /\ ~Succeeded(response')
                    /\ StoresUnchanged]_vars

\* C20 witness: the swap write of an initiate_swap has just failed: the
\* caller's token is INITIATOR, the selected swap is still REGISTERED and the
\* answer carries the error of the swap write.
C20_Witness ==
    /\ request.endpoint = "initiate_swap"
    /\ faults = {"tx_db.put"}
    /\ Error(response) = UPDATE_SWAP \o IOError
    /\ token_db[HashOf(request.item.token)].token_status = INITIATOR
    /\ tx_db[SwapKeyOf(request)].swap_status = REGISTERED

\* The endpoints that take the swap key from the request (selectedSwap).
SelectedSwapEndpoints == {"initiate_swap", "get_participator_info", "redeem_swap"}

\* C21: initiate_swap, get_participator_info or redeem_swap called with a
\* stored token in the endpoint's expected role and a selectedSwap under
\* which no swap record is stored answers 400 with SWAP_INVALID (whatever
\* the status guard would say) and changes neither store.
C21_UnknownSwapIsSwapInvalid ==
    [][(/\ request'.endpoint \in SelectedSwapEndpoints
        /\ HashOf(request'.item.token) \in DOMAIN token_db
        /\ token_db[HashOf(request'.item.token)].token_status
               \in ExpectedRoles(request'.endpoint)
        /\ SwapKeyOf(request') \notin DOMAIN tx_db) =>
          /\ Rejected(response', SWAP_INVALID)
          /\ StoresUnchanged]_vars

\* The endpoints that go through verify_token_and_get_swap_data.
CombinedCheckEndpoints ==
    {"initiate_swap", "participate_swap", "redeem_swap", "get_redeem_token", "complete_swap"}

\* C22: an endpoint that goes through the combined token-and-swap check,
\* called with a token that was never issued, answers 400 with
\* TOKEN_INVALID and changes neither store.
C22_UnissuedTokenIsTokenInvalid ==
    [][(/\ request'.endpoint \in CombinedCheckEndpoints
        /\ HashOf(request'.item.token) \notin DOMAIN token_db) =>
          /\ Rejected(response', TOKEN_INVALID)
          /\ StoresUnchanged]_vars

\* C24: every response whose status is Failed carries an error field, on
\* every endpoint and every failure path, the storage-failure paths of
\* get_token and get_swap_list included.
C24_FailedCarriesError ==
    ("status" \in DOMAIN response.content /\ response.content.status = FAILED) =>
        "error" \in DOMAIN response.content

\* The fields of a swap record a successful transition may change: the
\* status and the transitioning party's own fields.
OfferFields == {"i_currency", "i_receive_amount", "p_currency", "p_receive_amount", "p_addr"}
TransitionFields(endpoint) ==
    CASE endpoint = "initiate_swap" ->
             {"swap_status", "i_contract", "i_raw_tx", "i_addr", "i_token_hash"}
      [] endpoint = "participate_swap" -> {"swap_status", "p_contract", "p_raw_tx"}
      [] endpoint = "redeem_swap" -> {"swap_status", "i_redeem_raw_tx"}
      [] endpoint = "complete_swap" -> {"swap_status", "p_redeem_raw_tx"}
      [] OTHER -> {}

\* C25: a successful transition changes, in a stored swap record, only the
\* status and the transitioning party's fields; no request changes the offer
\* fields of a stored swap, or its i_token_hash once that is set.
C25_TransitionFrame ==
    [][\A k \in DOMAIN tx_db :
          /\ k \in DOMAIN tx_db'
          /\ DOMAIN tx_db'[k] = DOMAIN tx_db[k]
          /\ \A f \in OfferFields : tx_db'[k][f] = tx_db[k][f]
          /\ tx_db[k].i_token_hash # None => tx_db'[k].i_token_hash = tx_db[k].i_token_hash
          /\ (request'.endpoint \in TransitionEndpoints /\ Succeeded(response')) =>
                \A f \in DOMAIN tx_db[k] \ TransitionFields(request'.endpoint) :
                    tx_db'[k][f] = tx_db[k][f]]_vars

\* A swap has just been initiated and its record has changed.
C25_Witness ==
    /\ request.endpoint = "initiate_swap"
    /\ Succeeded(response)
    /\ a2b_hex(request.item.selectedSwap) \in DOMAIN tx_db
    /\ tx_db[a2b_hex(request.item.selectedSwap)].swap_status = INITIATED
    /\ tx_db[a2b_hex(request.item.selectedSwap)].i_token_hash = HashOf(request.item.token)
    /\ tx_db[a2b_hex(request.item.selectedSwap)].i_addr = request.item.receiveAddress

\* C26: in register_swap and initiate_swap, when the update of the token's
\* status fails the swap store is not written and the error starts with
\* "Failed to update token status: "; when the token update succeeds and
\* the swap write fails the error starts with "Failed to update swap data: ".
C26_UpdateErrorPrefixes ==
    [][(/\ request'.endpoint \in {"register_swap", "initiate_swap"}
        /\ PassesChecks(request')) =>
          /\ ("token_db.put" \in faults') =>
                /\ Rejected(response', UPDATE_TOKEN \o IOError)
                /\ StoresUnchanged
          /\ ("token_db.put" \notin faults' /\ "tx_db.put" \in faults') =>
                /\ Rejected(response', UPDATE_SWAP \o IOError)
                /\ token_db' # token_db
                /\ tx_db' = tx_db]_vars

\* The token update of a register_swap that passed its checks has just
\* failed: the answer names the token update and no swap is stored.
C26_Witness ==
    /\ request.endpoint = "register_swap"
    /\ "token_db.put" \in faults
    /\ Error(response) = UPDATE_TOKEN \o IOError
    /\ HashOf(request.item.token) \in DOMAIN token_db
    /\ token_db[HashOf(request.item.token)].token_status = NOT_USED
    /\ HashOf(request.item.token) \notin DOMAIN tx_db

\* C27: a successful get_token adds exactly one token record, keyed by the
\* hash of the token it emits and NOT_USED, and leaves every existing token
\* record and the whole swap store unchanged.
C27_GetTokenFrame ==
    [][(request'.endpoint = "get_token" /\ Succeeded(response')) =>
          LET h == HashOf(response'.content.token)
          IN  /\ h \notin DOMAIN token_db
              /\ DOMAIN token_db' = DOMAIN token_db \cup {h}
              /\ token_db'[h].token_status = NOT_USED
              /\ \A k \in DOMAIN token_db : token_db'[k] = token_db[k]
              /\ tx_db' = tx_db]_vars

\* A token has just been issued while the stores held a registered swap and
\* its participator's token.
C27_Witness ==
    /\ request.endpoint = "get_token"
    /\ Succeeded(response)
    /\ HashOf(response.content.token) \in DOMAIN token_db
    /\ token_db[HashOf(response.content.token)].token_status = NOT_USED
    /\ \E k \in DOMAIN token_db : token_db[k].token_status = PARTICIPATOR
    /\ \E k \in DOMAIN tx_db : tx_db[k].swap_status = REGISTERED

\* C29: when no storage operation fails, a request that is answered Failed
\* (or that ends in an unhandled exception) leaves the token store and the
\* swap store exactly as they were.
C29_FailedChangesNothing ==
    [][(faults' = {} /\ ~Succeeded(response') /\
        (Get(response'.content, "status") = FAILED \/ response'.raised # NoneStr)) =>
          StoresUnchanged]_vars

\* A register_swap with the token of a swap's initiator has just been
\* answered Failed: the token is still INITIATOR and keys no swap.
C29_Witness ==
    /\ request.endpoint = "register_swap"
    /\ faults = {}
    /\ Get(response.content, "status") = FAILED
    /\ HashOf(request.item.token) \in DOMAIN token_db
    /\ token_db[HashOf(request.item.token)].token_status = INITIATOR
    /\ HashOf(request.item.token) \notin DOMAIN tx_db
    /\ \E k \in DOMAIN tx_db : tx_db[k].i_token_hash = HashOf(request.item.token)

\* The token record and the swap record a request addresses: the caller's
\* hashed token (for get_token, the hash of the token it emits) and the swap
\* key of the endpoint.
AddressedTokens(req, resp) ==
    IF "token" \in DOMAIN req.item THEN {HashOf(req.item.token)}
    ELSE IF req.endpoint = "get_token" /\ Succeeded(resp) THEN {HashOf(resp.content.token)}
    ELSE {}
AddressedSwaps(req) ==
    IF "token" \in DOMAIN req.item THEN {SwapKeyOf(req)} ELSE {}

\* C30: a request that addresses swap key k with the caller's hashed token h
\* changes no swap record other than the one under k and no token record
\* other than the one under h.
C30_OtherRecordsUntouched ==
    [][/\ \A j \in (DOMAIN tx_db \cup DOMAIN tx_db') \ AddressedSwaps(request') :
             j \in DOMAIN tx_db /\ j \in DOMAIN tx_db' /\ tx_db'[j] = tx_db[j]
       /\ \A j \in (DOMAIN token_db \cup DOMAIN token_db') \
                      AddressedTokens(request', response') :
             j \in DOMAIN token_db /\ j \in DOMAIN token_db' /\ token_db'[j] = token_db[j]]_vars

\* A swap has just been registered while the stores held another swap and
\* another party's token.
C30_Witness ==
    /\ request.endpoint = "register_swap"
    /\ Succeeded(response)
    /\ HashOf(request.item.token) \in DOMAIN tx_db
    /\ \E j \in DOMAIN tx_db : j # HashOf(request.item.token)
    /\ \E j \in DOMAIN token_db : j # HashOf(request.item.token)

\* C23: when requests on the same swap key are in flight together (two
\* register_swap calls with one token and an initiate_swap of that swap, for
\* one), the status stored under a key only moves forward along REGISTERED,
\* INITIATED, PARTICIPATED, REDEEMED, COMPLETED, whatever the order in
\* which the requests are answered: no step takes it back.
C23_StatusMonotoneInFlight ==
    [][\A k \in DOMAIN tx_db :
          /\ k \in DOMAIN tx_db'
          /\ tx_db'[k].swap_status >= tx_db[k].swap_status
          /\ tx_db'[k].swap_status \in REGISTERED..COMPLETED]_vars

\* Two register_swap calls with one token and an initiate_swap of that swap
\* were in flight together; the second register_swap was answered last,
\* after the swap was initiated, and the swap is still INITIATED.
C23_Witness ==
    \E a, b, c \in Tasks :
        /\ a # b /\ a # c /\ b # c
        /\ \A t \in {a, b, c} : tasks[t].pc = "answered"
        /\ tasks[a].endpoint = "register_swap" /\ tasks[b].endpoint = "register_swap"
        /\ tasks[a].item.token = tasks[b].item.token
        /\ tasks[c].endpoint = "initiate_swap"
        /\ a2b_hex(tasks[c].item.selectedSwap) = HashOf(tasks[a].item.token)
        /\ Succeeded(tasks[a].response) /\ Succeeded(tasks[c].response)
        /\ request.endpoint = "register_swap" /\ ~Succeeded(response)
        /\ tx_db[HashOf(tasks[a].item.token)].swap_status = INITIATED

\* C28: of two initiate_swap requests in flight together, from two distinct
\* tokens and for the same swap, at most one is answered Success; the swap's
\* i_token_hash is then the hash of that one's token, and the other token,
\* if no third request used it, is still NOT_USED.
C28_OneInitiatorWins ==
    \A a, b \in Tasks :
        (/\ a # b
         /\ tasks[a].pc = "answered" /\ tasks[b].pc = "answered"
         /\ tasks[a].endpoint = "initiate_swap" /\ tasks[b].endpoint = "initiate_swap"
         /\ tasks[a].item.selectedSwap = tasks[b].item.selectedSwap
         /\ tasks[a].item.token # tasks[b].item.token) =>
            /\ ~(Succeeded(tasks[a].response) /\ Succeeded(tasks[b].response))
            /\ Succeeded(tasks[a].response) =>
                  /\ tx_db[a2b_hex(tasks[a].item.selectedSwap)].i_token_hash =
                         HashOf(tasks[a].item.token)
                  /\ token_db[HashOf(tasks[a].item.token)].token_status = INITIATOR
                  /\ (\A c \in Tasks \ {a, b} :
                          ~(tasks[c].pc = "answered" /\
                            tasks[c].item.token = tasks[b].item.token)) =>
                        token_db[HashOf(tasks[b].item.token)].token_status = NOT_USED

\* Two initiate_swap calls from two tokens for one registered swap were in
\* flight together and both are answered: one with Success, the other with
\* the rejection of a swap in progress.
C28_Witness ==
    \E a, b \in Tasks :
        /\ a # b
        /\ tasks[a].pc = "answered" /\ tasks[b].pc = "answered"
        /\ tasks[a].endpoint = "initiate_swap" /\ tasks[b].endpoint = "initiate_swap"
        /\ tasks[a].item.selectedSwap = tasks[b].item.selectedSwap
        /\ tasks[a].item.token # tasks[b].item.token
        /\ Succeeded(tasks[a].response)
        /\ Rejected(tasks[b].response, SWAP_PROGRESS)
        /\ token_db[HashOf(tasks[b].item.token)].token_status = NOT_USED

\* The endpoints that only read.
ReadEndpoints ==
    {"verify_token", "get_swap_list", "get_initiator_info", "get_participator_info",
     "get_redeem_token"}

\* C31: verify_token, get_swap_list, get_initiator_info,
\* get_participator_info and get_redeem_token leave the token store and the
\* swap store as they were, whatever they answer.
C31_ReadEndpointsReadOnly ==
    [][(request'.endpoint \in ReadEndpoints) => StoresUnchanged]_vars

\* get_initiator_info has just refused to report a swap that is still
\* REGISTERED; the swap and the caller's token are stored as before.
C31_Witness ==
    /\ request.endpoint = "get_initiator_info"
    /\ Rejected(response, SWAP_STATUS_INVALID)
    /\ HashOf(request.item.token) \in DOMAIN tx_db
    /\ tx_db[HashOf(request.item.token)].swap_status = REGISTERED
    /\ token_db[HashOf(request.item.token)].token_status = PARTICIPATOR

UnusedKeysNoSwap ==
    \A h \in DOMAIN token_db :
        token_db[h].token_status = NOT_USED => h \notin DOMAIN tx_db

\* C34: in runs of one request after another, a token that is NOT_USED keys
\* no swap; so register_swap and initiate_swap never answer TOKEN_USED, and
\* a token that keys a swap is rejected by them with TOKEN_STATUS_INVALID.
C34_NeverTokenUsed ==
    [][(request'.endpoint \in {"register_swap", "initiate_swap"}) =>
          /\ UnusedKeysNoSwap'
          /\ Error(response') # TOKEN_USED
          /\ (HashOf(request'.item.token) \in DOMAIN tx_db) =>
                /\ Rejected(response', TOKEN_STATUS_INVALID)
                /\ StoresUnchanged]_vars

\* C35: get_redeem_token, called by the participator of a stored swap,
\* answers Success only while the swap is exactly REDEEMED; at any other
\* status it answers 400 with SWAP_PROGRESS, whatever the stored redeem
\* transaction holds.
C35_RedeemTokenOnlyWhileRedeemed ==
    [][(/\ request'.endpoint = "get_redeem_token"
        /\ HashOf(request'.item.token) \in DOMAIN token_db
        /\ token_db[HashOf(request'.item.token)].token_status = PARTICIPATOR
        /\ HashOf(request'.item.token) \in DOMAIN tx_db) =>
          LET swap_status == tx_db[HashOf(request'.item.token)].swap_status
          IN  /\ Succeeded(response') => swap_status = REDEEMED
              /\ swap_status # REDEEMED => Rejected(response', SWAP_PROGRESS)]_vars

\* C36: get_initiator_info, called by the participator of a stored swap,
\* answers Success exactly when the swap is INITIATED, PARTICIPATED or
\* REDEEMED; when it is REGISTERED, COMPLETED or CANCELED it answers Failed
\* with HTTP 400 and the four information fields null.
C36_InitiatorInfoByStatus ==
    [][(/\ request'.endpoint = "get_initiator_info"
        /\ HashOf(request'.item.token) \in DOMAIN token_db
        /\ token_db[HashOf(request'.item.token)].token_status = PARTICIPATOR
        /\ HashOf(request'.item.token) \in DOMAIN tx_db) =>
          LET swap_status == tx_db[HashOf(request'.item.token)].swap_status
          IN  /\ Succeeded(response') <=> swap_status \in INITIATED..REDEEMED
              /\ swap_status \notin INITIATED..REDEEMED =>
                    /\ response'.raised = NoneStr
                    /\ response'.status_code = 400
                    /\ Get(response'.content, "status") = FAILED
                    /\ \A f \in {"initiatorAddress", "tokenHash", "initiateContract",
                                  "initiateRawTransaction"} :
                           /\ f \in DOMAIN response'.content
                           /\ response'.content[f] = NoneStr]_vars

-----------------------------------------------------------------------------
\* The historical s4 server (src/s4/api.py, src/s4/db.py), run side by side
\* with asns on the same requests.

s4_TxDBDataFields ==
    {"i_currency", "i_receive_amount", "i_addr", "i_token", "i_raw_tx",
     "i_redeem_raw_tx", "p_currency", "p_receive_amount", "p_addr", "p_raw_tx",
     "p_redeem_raw_tx", "secret", "secret_hash", "swap_status"}

\* s4 TxDBData(i_currency=.., i_receive_amount=.., p_currency=..,
\* p_receive_amount=.., p_addr=..): every other field takes its default.
s4_TxDBData(i_currency, i_receive_amount, p_currency, p_receive_amount, p_addr) ==
    [i_currency |-> i_currency, i_receive_amount |-> i_receive_amount,
     i_addr |-> NoneStr, i_token |-> NoneStr, i_raw_tx |-> NoneStr,
     i_redeem_raw_tx |-> NoneStr, p_currency |-> p_currency,
     p_receive_amount |-> p_receive_amount, p_addr |-> p_addr,
     p_raw_tx |-> NoneStr, p_redeem_raw_tx |-> NoneStr, secret |-> NoneStr,
     secret_hash |-> NoneStr, swap_status |-> REGISTERED]

\* s4 TxDBData.from_dict: dict_data.get(name) for each declared field, a
\* missing int field read as None, a missing str field as None, a key that is
\* not declared dropped.
s4_TxDBData_from_dict(dict_data) ==
    [name \in s4_TxDBDataFields |->
        IF name \in DOMAIN dict_data THEN dict_data[name]
        ELSE IF name \in {"i_receive_amount", "p_receive_amount", "swap_status"}
        THEN NoneInt ELSE NoneStr]

\* s4 TxDBData.asdict: the declared fields, swap_status as int.
s4_TxDBData_asdict(obj) == [name \in s4_TxDBDataFields |-> obj[name]]

\* s4 TokenDBData(date)
s4_TokenDBData(date) == [date |-> date]

s4_TokenDBData_asdict(obj) == [date |-> obj.date]

\* s4 TokenDBData.from_dict: dict_data.get("date").
s4_TokenDBData_from_dict(dict_data) ==
    [date |-> IF "date" \in DOMAIN dict_data THEN dict_data.date ELSE NoneInt]

\* s4 TokenDB.put / TxDB.put
s4_TokenDB_put(key, value) ==
    [k \in DOMAIN s4_token_db \cup {key} |->
        IF k = key THEN s4_TokenDBData_asdict(value) ELSE s4_token_db[k]]

s4_TxDB_put(key, value) ==
    [k \in DOMAIN s4_tx_db \cup {key} |->
        IF k = key THEN s4_TxDBData_asdict(value) ELSE s4_tx_db[k]]

\* s4 TokenDB.get and TxDB.get hand self.db.get(key) to pickle.loads with no
\* test for None: a key that is not stored raises TypeError.
s4_TokenDB_get(key) ==
    IF key \in DOMAIN s4_token_db
    THEN [raised |-> NoneStr, value |-> Some(s4_TokenDBData_from_dict(s4_token_db[key]))]
    ELSE [raised |-> "TypeError", value |-> None]

s4_TxDB_get(key) ==
    IF key \in DOMAIN s4_tx_db
    THEN [raised |-> NoneStr, value |-> Some(s4_TxDBData_from_dict(s4_tx_db[key]))]
    ELSE [raised |-> "TypeError", value |-> None]

\* s4 TxDB.get_all
s4_TxDB_get_all == [k \in DOMAIN s4_tx_db |-> s4_TxDBData_from_dict(s4_tx_db[k])]

\* s4 TokenDB.verify_token: raises on a text that is not base58 and on a token
\* that is not stored; a stored TokenDBData is truthy.
s4_verify_token(token) ==
    IF ~IsBase58(token) THEN [raised |-> "EncodingError", exist |-> FALSE]
    ELSE LET g == s4_TokenDB_get(sha256d(a2b_base58(token)))
         IN  [raised |-> g.raised, exist |-> g.value # None]

\* s4 GET /get_token/ with raw_token = secrets.token_bytes(64), time.time() = now.
s4_get_token_handler(raw_token, now) ==
    LET token == b2a_base58(raw_token)
        hashed_token == sha256d(raw_token)
    IN  Outcome(JSONResponse(200, [status |-> SUCCESS, token |-> token]),
                s4_TokenDB_put(hashed_token, s4_TokenDBData(now)), s4_tx_db)

\* s4 POST /register_swap/ (register_token): an exception of verify_token
\* leaves exist False, an exception of tx_db.get leaves used False.
s4_register_token_handler(item) ==
    LET v == s4_verify_token(item.token)
        exist == v.raised = NoneStr /\ v.exist
        hashed_token == sha256d(a2b_base58(item.token))
        g == s4_TxDB_get(hashed_token)
        used == exist /\ g.raised = NoneStr /\ g.value # None
        data == s4_TxDBData(item.wantCurrency, item.sendAmount,
                            item.sendCurrency, item.wantAmount, item.receiveAddress)
    IN  IF ~exist
        THEN Outcome(JSONResponse(400, [status |-> FAILED, error |-> TOKEN_INVALID]),
                     s4_token_db, s4_tx_db)
        ELSE IF used
        THEN Outcome(JSONResponse(400, [status |-> FAILED, error |-> TOKEN_USED]),
                     s4_token_db, s4_tx_db)
        ELSE Outcome(JSONResponse(200, [status |-> SUCCESS]),
                     s4_token_db, s4_TxDB_put(hashed_token, data))

\* s4 GET /get_swap_list/
s4_get_swap_list_handler ==
    LET all_list == s4_TxDB_get_all
        listed == {k \in DOMAIN all_list : all_list[k].swap_status = REGISTERED}
        data == [h \in {hex(k) : k \in listed} |->
                    LET value == all_list[a2b_hex(h)]
                    IN  [initiator_currency |-> value.i_currency,
                         initiator_receive_amount |-> value.i_receive_amount,
                         participator_currency |-> value.p_currency,
                         participator_receive_amount |-> value.p_receive_amount,
                         participator_address |-> value.p_addr]]
    IN  Outcome(JSONResponse(200, [status |-> SUCCESS, data |-> data]),
                s4_token_db, s4_tx_db)

\* The s4 server has answered the request with Outcome `o`.
s4_Respond(o) ==
    /\ s4_response' = o.response
    /\ s4_token_db' = o.token_db
    /\ s4_tx_db' = o.tx_db

\* A token text that is not base58: 0, O, I and l are not in the alphabet.
MalformedTokenTexts == {<<"text", "0OIl">>}

\* register_swap bodies with any token text a client can send.
AnyRegisterSwapItem ==
    {[token |-> t, wantCurrency |-> o.wantCurrency, wantAmount |-> o.wantAmount,
      sendCurrency |-> o.sendCurrency, sendAmount |-> o.sendAmount,
      receiveAddress |-> o.receiveAddress] :
        t \in TokenTexts \cup MalformedTokenTexts, o \in Offers}

\* The same secrets.token_bytes(64) and the same time.time() on both servers.
both_get_token ==
    \E raw_token \in RawTokens, now \in {t \in Times : t >= clock} :
        /\ sha256d(raw_token) \notin DOMAIN token_db
        /\ clock' = now
        /\ Respond("get_token", << >>, get_token_handler(raw_token, now, NoFail), NoFail)
        /\ s4_Respond(s4_get_token_handler(raw_token, now))
        /\ UNCHANGED tasks

both_register_swap ==
    \E item \in AnyRegisterSwapItem :
        /\ Respond("register_swap", item, register_swap_handler(item, NoFail), NoFail)
        /\ s4_Respond(s4_register_token_handler(item))
        /\ UNCHANGED <<clock, tasks>>

both_get_swap_list ==
    /\ Respond("get_swap_list", << >>, get_swap_list_handler(NoFail), NoFail)
    /\ s4_Respond(s4_get_swap_list_handler)
    /\ UNCHANGED <<clock, tasks>>

BothNext == both_get_token \/ both_register_swap \/ both_get_swap_list

\* Sequential runs of get_token, register_swap and get_swap_list sent to both
\* servers, no storage failure.
BothSpec == Init /\ [][BothNext]_vars

\* The offer a swap record of either server shows.
OfferOf(swap_data) == [name \in OfferFields |-> swap_data[name]]

\* Both servers hold the same swap keys, each REGISTERED with the same offer.
SameRegistrations ==
    /\ DOMAIN tx_db = DOMAIN s4_tx_db
    /\ \A k \in DOMAIN tx_db :
          /\ tx_db[k].swap_status = REGISTERED
          /\ s4_tx_db[k].swap_status = REGISTERED
          /\ OfferOf(tx_db[k]) = OfferOf(s4_tx_db[k])

\* Neither server changes or drops a swap record it holds.
NoOverwrite ==
    /\ \A k \in DOMAIN tx_db : k \in DOMAIN tx_db' /\ tx_db'[k] = tx_db[k]
    /\ \A k \in DOMAIN s4_tx_db : k \in DOMAIN s4_tx_db' /\ s4_tx_db'[k] = s4_tx_db[k]

\* The two answers to one register_swap are the same, or are the two 400s
\* for a token that already keys a swap.
SameAnswer(item) ==
    \/ /\ response'.status_code = s4_response'.status_code
       /\ response'.content = s4_response'.content
    \/ /\ IsBase58(item.token) /\ HashOf(item.token) \in DOMAIN tx_db
       /\ Rejected(response', TOKEN_STATUS_INVALID)
       /\ s4_response' = JSONResponse(400, [status |-> FAILED, error |-> TOKEN_USED])

\* C37: in every run of get_token, register_swap and get_swap_list sent to
\* both servers without storage failures, asns and s4 accept and reject the
\* same register_swap requests, their answers differing only in the error text
\* for a token that has already registered; both hold the same swap keys with
\* the same offer fields in REGISTERED status; neither overwrites a swap record.
C37_RegistrationAgrees ==
    [][/\ SameRegistrations'
       /\ NoOverwrite
       /\ (request'.endpoint = "register_swap") =>
             /\ Succeeded(response') <=> Succeeded(s4_response')
             /\ SameAnswer(request'.item)]_vars

=============================================================================
